---- MODULE Spec2Model ----
(***************************************************************************)
(* Model of go-is-disposable-email: the reversed-string domain trie, the   *)
(* snapshot decoder and the Checker (construction from cache or download,  *)
(* queries, runtime additions, manual and background refresh, Close).      *)
(* Spec is the Checker with its callers and worker, FairSpec the Checker    *)
(* under fair scheduling, TrieSpec the trie package used on its own.       *)
(*                                                                         *)
(* Strings are sequences of one-character strings, so that trimming,       *)
(* lower-casing, splitting at '@' and reversing are computed, not assumed. *)
(***************************************************************************)
EXTENDS Integers, Sequences, FiniteSets, TLC

(***************************************************************************)
(* Bounds                                                                  *)
(***************************************************************************)
\* total number of downloads started (construction, manual, background)
MaxFetches == 2
\* deepest subdomain prefix P tried in front of a stored domain
MaxDepth == 2

(***************************************************************************)
(* Strings                                                                 *)
(***************************************************************************)
\* "tempmail.com", "mail.tempmail.com", "nottempmail.com", "gmail.com", "x.com"
d_tc == <<"t", ".", "c">>
d_mtc == <<"m", ".", "t", ".", "c">>
d_ntc == <<"n", "t", ".", "c">>
d_gc == <<"g", ".", "c">>
d_xc == <<"x", ".", "c">>
\* " T.C " : needs trimming and lower-casing
d_TCpad == <<" ", "T", ".", "C", " ">>
\* " X.C"
d_XCpad == <<" ", "X", ".", "C">>
\* "u@T.C ", "u@", "@", "", " "
e_uTC == <<"u", "@", "T", ".", "C", " ">>
e_u == <<"u", "@">>
e_at == <<"@">>
e_empty == <<>>
e_blank == <<" ">>
\* "@u@g.c", and "\u0131.c", whose first letter is the dotless i
e_uug == <<"@", "u", "@", "g", ".", "c">>
d_ic == <<"i", ".", "c">>
d_dotless == <<"u0131", ".", "c">>

\* two bytes that are not valid UTF-8 ("\xff", "\xfe"), and the rune U+FFFD
\* that Go's conversions put in the place of such a byte
InvalidBytes == {"xFF", "xFE"}
RuneError == "uFFFD"

\* []rune(s), and the runes "for _, char := range s" yields
toRunes(s) == [i \in 1..Len(s) |-> IF s[i] \in InvalidBytes THEN RuneError ELSE s[i]]

\* strings.ToLower on one character (the upper-case letters the inputs use;
\* a string with a non-ASCII byte goes through strings.Map, which replaces
\* invalid bytes)
ToLowerChar(ch) ==
    CASE ch = "T" -> "t"
      [] ch = "C" -> "c"
      [] ch = "G" -> "g"
      [] ch = "X" -> "x"
      [] ch = "M" -> "m"
      [] ch = "U" -> "u"
      [] ch = "I" -> "i"
      [] ch \in InvalidBytes -> RuneError
      [] OTHER -> ch

ToLower(s) == [i \in 1..Len(s) |-> ToLowerChar(s[i])]

RECURSIVE TrimLeft(_)
TrimLeft(s) == IF s # <<>> /\ Head(s) = " " THEN TrimLeft(Tail(s)) ELSE s

RECURSIVE TrimRight(_)
TrimRight(s) ==
    IF s # <<>> /\ s[Len(s)] = " " THEN TrimRight(SubSeq(s, 1, Len(s) - 1)) ELSE s

TrimSpace(s) == TrimRight(TrimLeft(s))

\* strings.LastIndex for a one-character separator; positions are 1-based here
\* and 0 stands for Go's -1
LastIndex(s, ch) ==
    LET hits == {i \in 1..Len(s) : s[i] = ch}
    IN  IF hits = {} THEN 0 ELSE CHOOSE i \in hits : \A j \in hits : j <= i

\* variant: the input is not split at '@'
ExtractDomain_noSplit(emailOrDomain) == ToLower(TrimSpace(emailOrDomain))

ExtractDomain(emailOrDomain) ==
    LET e == ToLower(TrimSpace(emailOrDomain))
        idx == LastIndex(e, "@")
    IN  IF e = <<>> THEN <<>>
        ELSE IF idx # 0 THEN SubSeq(e, idx + 1, Len(e))
        ELSE e

NormalizeDomain(domain) == ToLower(TrimSpace(domain))

reverseString(s) ==
    LET runes == toRunes(s)
    IN  [i \in 1..Len(runes) |-> runes[Len(runes) + 1 - i]]

(***************************************************************************)
(* Trie: nodes are identified by the path (of reversed characters) that    *)
(* leads to them from the root; ends is the set of nodes with IsEnd set.   *)
(* gen is the identity of the Trie object: which construction or decoding  *)
(* allocated it (the two tries of one decoding carry the same gen).        *)
(***************************************************************************)
New(g) == [gen |-> g, nodes |-> {<<>>}, ends |-> {}, size |-> 0]

\* variant: the size is incremented on every insertion
Insert_alwaysCounts(t, domain) ==
    IF domain = <<>> THEN t
    ELSE LET reversed == reverseString(domain)
         IN  [t EXCEPT !.nodes = @ \cup {SubSeq(reversed, 1, i) : i \in 1..Len(reversed)},
                       !.ends = @ \cup {reversed},
                       !.size = @ + 1]

Insert(t, domain) ==
    IF domain = <<>> THEN t
    ELSE LET reversed == reverseString(domain)
         IN  [t EXCEPT !.nodes = @ \cup {SubSeq(reversed, 1, i) : i \in 1..Len(reversed)},
                       !.ends = @ \cup {reversed},
                       !.size = IF reversed \in t.ends THEN @ ELSE @ + 1]

RECURSIVE InsertAll(_, _)
InsertAll(t, domains) ==
    IF domains = <<>> THEN t
    ELSE InsertAll(Insert(t, Head(domains)), Tail(domains))

\* the loop of Contains: i is the index of the next character to consume
RECURSIVE ContainsWalk(_, _, _)
ContainsWalk(t, reversed, i) ==
    IF i > Len(reversed) THEN reversed \in t.ends
    ELSE IF SubSeq(reversed, 1, i) \notin t.nodes THEN FALSE
    ELSE ContainsWalk(t, reversed, i + 1)

\* variant: the path is walked and IsEnd of its last node is not looked at
Contains_anyPath(t, domain) ==
    IF domain = <<>> THEN FALSE
    ELSE reverseString(domain) \in t.nodes

Contains(t, domain) ==
    IF domain = <<>> THEN FALSE
    ELSE ContainsWalk(t, reverseString(domain), 1)

\* the loop of ContainsHierarchical
RECURSIVE HierWalk(_, _, _)
HierWalk(t, reversed, i) ==
    IF i > Len(reversed) THEN reversed \in t.ends
    ELSE IF SubSeq(reversed, 1, i) \notin t.nodes THEN FALSE
    ELSE IF SubSeq(reversed, 1, i) \in t.ends THEN TRUE
    ELSE HierWalk(t, reversed, i + 1)

\* variant: a terminal node counts only at the end of a label
ContainsHierarchical_labels(t, domain) ==
    LET reversed == reverseString(domain)
    IN  \E i \in 1..Len(reversed) :
            /\ SubSeq(reversed, 1, i) \in t.ends
            /\ i = Len(reversed) \/ reversed[i + 1] = "."

\* variant: only the node at the end of the path is tested
ContainsHierarchical_exact(t, domain) ==
    IF domain = <<>> THEN FALSE
    ELSE ContainsWalk(t, reverseString(domain), 1)

ContainsHierarchical(t, domain) ==
    IF domain = <<>> THEN FALSE
    ELSE \E reversed \in {reverseString(domain)} : HierWalk(t, reversed, 1)

Size(t) == t.size

\* variant: the root is replaced and the size is left as it was
Clear_keepsSize(t) == [t EXCEPT !.nodes = {<<>>}, !.ends = {}]

\* Clear: a new root, size 0; the Trie object stays the same
Clear(t) == [t EXCEPT !.nodes = {<<>>}, !.ends = {}, !.size = 0]

\* the set of stored domains (GetAll returns them in map order)
GetAll(t) == {reverseString(p) : p \in t.ends}


(***************************************************************************)
(* Snapshot blobs and the decoder                                          *)
(***************************************************************************)
\* os.ReadFile fails: there is no cache file
NoFile == [kind |-> "nofile", version |-> "", createdAt |-> 0, domainCount |-> 0,
           blocklist |-> <<>>, allowlist |-> <<>>]
\* bytes that are not a gzip stream
blobBadGzip == [kind |-> "badgzip", version |-> "", createdAt |-> 0, domainCount |-> 0,
                blocklist |-> <<>>, allowlist |-> <<>>]
\* a gzip stream whose payload is not a gob-encoded DataFile
blobBadGob == [kind |-> "badgob", version |-> "", createdAt |-> 0, domainCount |-> 0,
               blocklist |-> <<>>, allowlist |-> <<>>]
\* two well-formed snapshots
blobS1 == [kind |-> "ok", version |-> "1.0", createdAt |-> 1, domainCount |-> 1,
           blocklist |-> <<d_tc>>, allowlist |-> <<>>]
blobS2 == [kind |-> "ok", version |-> "2.0", createdAt |-> 2, domainCount |-> 2,
           blocklist |-> <<d_gc, d_xc>>, allowlist |-> <<d_gc>>]

\* what the server may answer with, and what the cache file may hold at start
ServerBlobs == {blobS1, blobS2, blobBadGzip, blobBadGob}
InitialCaches == {NoFile, blobBadGzip, blobS1}

NilTrie == [gen |-> -1, nodes |-> {}, ends |-> {}, size |-> 0]
NilDataFile == [Version |-> "", CreatedAt |-> 0, DomainCount |-> 0]

\* trie.Deserialize; g is the identity given to the two tries it allocates
Deserialize(data, g) ==
    IF data.kind = "badgzip"
    THEN [err |-> "gzip reader creation failed", blocklist |-> NilTrie,
          allowlist |-> NilTrie, dataFile |-> NilDataFile]
    ELSE IF data.kind # "ok"
    THEN [err |-> "gob decode failed", blocklist |-> NilTrie,
          allowlist |-> NilTrie, dataFile |-> NilDataFile]
    ELSE [err |-> "",
          blocklist |-> InsertAll(New(g), data.blocklist),
          allowlist |-> InsertAll(New(g), data.allowlist),
          dataFile |-> [Version |-> data.version, CreatedAt |-> data.createdAt,
                        DomainCount |-> data.domainCount]]

\* the orders in which GetAll may return the set S (map iteration order)
Orderings(S) ==
    {q \in [1..Cardinality(S) -> S] : \A x \in S : \E i \in 1..Cardinality(S) : q[i] = x}

\* the value of time.Now().UTC() when Serialize runs
SerializeTime == 3

\* variant: DomainCount counts the domains of both lists
Serialize_countsBoth(bl, al) ==
    {[kind |-> "ok", version |-> "1.0", createdAt |-> SerializeTime,
      domainCount |-> Size(bl) + Size(al), blocklist |-> b, allowlist |-> a] :
        b \in Orderings(GetAll(bl)), a \in Orderings(GetAll(al))}

\* trie.Serialize: the blobs it may return for the two tries (one for each
\* order GetAll lists the domains in); encoding into memory does not fail
Serialize(bl, al) ==
    {[kind |-> "ok", version |-> "1.0", createdAt |-> SerializeTime,
      domainCount |-> Size(bl), blocklist |-> b, allowlist |-> a] :
        b \in Orderings(GetAll(bl)), a \in Orderings(GetAll(al))}

(***************************************************************************)
(* Checker state                                                           *)
(***************************************************************************)
VARIABLES
    config,        \* Config: AutoRefresh, CustomBlocklist, CustomAllowlist
    blocklist,     \* Checker.blocklist
    allowlist,     \* Checker.allowlist
    initialized,   \* Checker.initialized
    lastUpdated,   \* Checker.lastUpdated
    version,       \* Checker.version
    cancelFunc,    \* Checker.cancelFunc # nil
    mu,            \* Checker.mu: writer ("none" or a thread) and set of readers
    wg,            \* Checker.wg counter
    ctxDone,       \* the worker's context has been cancelled
    cache,         \* contents of the cache file data.bin
    pc,            \* position of each thread
    local,         \* local variables of the call each thread is in
    ret,           \* value returned by the last call of each thread
    nfetch,        \* number of downloadData calls so far
    closed,        \* some Close call has returned
    constructed,   \* New: "pending", "ok" (Checker returned) or "err"
    tries,         \* two tries used on their own, outside any Checker
    inserted,      \* the strings passed to Insert on each since its last Clear
    restored,      \* what the last Deserialize(Serialize(...)) of them returned,
                   \* and the strings that had been inserted into each by then
    ser,           \* a Serialize call on them in progress: its position and
                   \* the DataFile it is filling in
    pkg,           \* package disposable: defaultChecker, defaultCheckerErr,
                   \* defaultCheckerOnce, and how often New has been entered
    fcall,         \* the package-level call each goroutine is in
    upd            \* one run of the update tool: its inputs, its position, its
                   \* maps and counters, the file data.bin, and what it returned

vars == <<config, blocklist, allowlist, initialized, lastUpdated, version,
          cancelFunc, mu, wg, ctxDone, cache, pc, local, ret, nfetch, closed, constructed,
          tries, inserted, restored, ser, pkg, fcall, upd>>

\* the state of the Checker and its threads, and the state of the tries
\* used on their own
checkerVars == <<config, blocklist, allowlist, initialized, lastUpdated, version,
                 cancelFunc, mu, wg, ctxDone, cache, pc, local, ret, nfetch, closed,
                 constructed>>
trieVars == <<tries, inserted, restored, ser>>
facadeVars == <<pkg, fcall>>

\* the Checker fields a refresh installs
cstate == <<blocklist, allowlist, initialized, lastUpdated, version>>

\* no Serialize call in progress
NoSerialize == [at |-> "none", DomainCount |-> 0, Blocklist |-> <<>>, Allowlist |-> <<>>]

\* "main" calls New and then uses the Checker, "c2" is a second caller,
\* "bg" is the autoRefreshWorker goroutine
Clients == {"main", "c2"}
Threads == Clients \cup {"bg"}
\* which caller issues which calls: "main" changes the Checker, "c2" queries
\* it, both may close it
Mutators == {"main"}
Queriers == {"c2"}

Configs ==
    { [AutoRefresh |-> FALSE, CustomBlocklist |-> <<>>, CustomAllowlist |-> <<>>],
      [AutoRefresh |-> TRUE, CustomBlocklist |-> <<d_XCpad, e_u>>,
       CustomAllowlist |-> <<e_blank, d_gc>>] }

\* arguments the callers pass
QueryInputs == {d_mtc, d_gc, e_uTC, e_u, e_at, e_empty, e_blank}
\* domains the properties probe the indexes with
ProbeDomains == {d_tc, d_mtc, d_ntc, d_gc, d_xc}
AddArgs == {<<d_TCpad, e_blank>>}
AllowArgs == {<<d_TCpad>>}

\* identities of the tries: those New allocates, those decoded from the
\* cache; the tries decoded from the k-th download have identity k
InitGen == -2
CacheGen == 0
\* the tries used on their own, and those decoded from their serialization
OwnGen == -3
RestoredGen == -4
TrieNames == {"blocklist", "allowlist"}

\* the goroutines that call the package-level functions
Callers == {"g1", "g2"}

\* the update tool's inputs: what downloadSource returns for a source (an
\* error, or the lines parseLines kept), the sources file, the file of the
\* -manual flag, the file manual.txt, and the data.bin of the last run
d_TC == <<"T", ".", "C">>
SourceLines == {<<>>, <<d_tc>>, <<d_TC, d_gc>>, <<<<"c">>>>}
SourceResults ==
    {[failed |-> TRUE, lines |-> <<>>]}
    \cup {[failed |-> FALSE, lines |-> l] : l \in SourceLines}
Sources ==
    {[type |-> ty, result |-> r] : ty \in {"blocklist", "allowlist"}, r \in SourceResults}
MaxSources == 2
SourceFiles == UNION {[1..n -> Sources] : n \in 0..MaxSources}
ManualFiles ==
    {[given |-> FALSE, readable |-> FALSE, lines |-> <<>>],
     [given |-> TRUE, readable |-> FALSE, lines |-> <<>>],
     [given |-> TRUE, readable |-> TRUE, lines |-> <<d_gc>>]}
ManualTxts ==
    {[given |-> FALSE, readable |-> FALSE, lines |-> <<>>],
     [given |-> TRUE, readable |-> TRUE, lines |-> <<d_xc, d_TC>>]}

\* the update tool before run is called
UpdateRuns ==
    {[pc |-> "load", sources |-> ss, manualFile |-> mf, manualTxt |-> mt, old |-> o,
      i |-> 1, blocklist |-> {}, allowlist |-> {}, successfulSources |-> 0,
      dataBin |-> o, ret |-> "none"] :
        ss \in SourceFiles, mf \in ManualFiles, mt \in ManualTxts, o \in {NoFile, blobS1}}

\* no package-level call in progress or returned yet
NoOut == [got |-> <<0, "none">>, res |-> [val |-> "-", err |-> "none"]]
NoCall == [pc |-> "idle", fn |-> "none", arg |-> <<>>, returned |-> FALSE, out |-> NoOut]

\* a nil *Checker
NilChecker == [id |-> 0, blocklist |-> NilTrie, allowlist |-> NilTrie,
               lastUpdated |-> 0, version |-> ""]

Local0 == [domain |-> <<>>, fetchId |-> 0, fileData |-> NoFile,
           nb |-> NilTrie, na |-> NilTrie, df |-> NilDataFile,
           result |-> FALSE, obsA |-> -1, obsB |-> -1,
           stats |-> [BlocklistCount |-> 0, AllowlistCount |-> 0,
                      LastUpdated |-> 0, Version |-> ""],
           index |-> "", todo |-> <<>>, list |-> {}]

\* the Checker under construction, the two tries and the package before
\* any call
InitProgram ==
    /\ config \in Configs
    /\ blocklist = New(InitGen)
    /\ allowlist = New(InitGen)
    /\ initialized = FALSE
    /\ lastUpdated = 0
    /\ version = ""
    /\ cancelFunc = FALSE
    /\ mu = [w |-> "none", r |-> {}]
    /\ wg = 0
    /\ ctxDone = FALSE
    /\ cache \in InitialCaches
    /\ pc = [t \in Threads |-> IF t = "main" THEN "mkdir" ELSE IF t = "bg" THEN "w_none" ELSE "idle"]
    /\ local = [t \in Threads |-> Local0]
    /\ ret = [t \in Threads |-> "none"]
    /\ nfetch = 0
    /\ closed = FALSE
    /\ constructed = "pending"
    /\ tries = [k \in TrieNames |-> New(OwnGen)]
    /\ inserted = [k \in TrieNames |-> {}]
    /\ restored = [out |-> [err |-> "none", blocklist |-> NilTrie,
                            allowlist |-> NilTrie, dataFile |-> NilDataFile],
                   B |-> {}, A |-> {}]
    /\ ser = NoSerialize
    /\ pkg = [defaultChecker |-> NilChecker, defaultCheckerErr |-> "nil",
              once |-> [done |-> FALSE, m |-> "none"], news |-> 0]
    /\ fcall = [p \in Callers |-> NoCall]

\* ... and the update tool not yet run, on an empty sources file
Init ==
    /\ InitProgram
    /\ upd \in {u \in UpdateRuns : /\ u.sources = <<>>
                                   /\ ~u.manualFile.given
                                   /\ ~u.manualTxt.given
                                   /\ u.old = NoFile}

\* sync.RWMutex
LockFree == mu.w = "none" /\ mu.r = {}
RLockFree == mu.w = "none"


(***************************************************************************)
(* Construction: New, init, loadFromCache                                  *)
(***************************************************************************)
\* variant: the Source is "download" wherever the bytes came from
DeserializationError_noSource(source) == "DeserializationError{download}"

\* &DeserializationError{Source: source, Err: err}
DeserializationError(source) ==
    IF source = "cache" THEN "DeserializationError{cache}"
                        ELSE "DeserializationError{download}"

\* the error loadFromCache returns for the cache file data ("" is nil)
loadFromCache(data) ==
    IF data.kind = "nofile" THEN "CacheError"
    ELSE IF Deserialize(data, CacheGen).err # "" THEN DeserializationError("cache")
    ELSE ""

\* variant: the cause is returned as it is
InitializationError_bare(err) == err

\* &InitializationError{Reason: ..., Err: err}
InitializationError(err) ==
    CASE err = "DownloadError" -> "InitializationError{DownloadError}"
      [] err = DeserializationError("download") ->
            "InitializationError{DeserializationError}"
      [] OTHER -> "InitializationError{}"

\* (*InitializationError).Unwrap, and nil for the errors that wrap none here
Unwrap(e) ==
    CASE e = "InitializationError{DownloadError}" -> "DownloadError"
      [] e = "InitializationError{DeserializationError}" ->
            DeserializationError("download")
      [] OTHER -> "nil"

\* IsInitializationError
IsInitializationError(e) ==
    e \in {"InitializationError{DownloadError}",
           "InitializationError{DeserializationError}", "InitializationError{}"}

\* New up to os.MkdirAll(config.CacheDir): when it fails New returns a
\* CacheError; it cannot fail when the directory exists, so then there is no
\* cache file either
NewMkdirAll(ok) ==
    /\ pc["main"] = "mkdir"
    /\ IF ok
       THEN /\ pc' = [pc EXCEPT !["main"] = "new"]
            /\ UNCHANGED <<ret, constructed>>
       ELSE /\ cache.kind = "nofile"
            /\ pc' = [pc EXCEPT !["main"] = "dead"]
            /\ ret' = [ret EXCEPT !["main"] = "CacheError"]
            /\ constructed' = "err"
    /\ UNCHANGED <<trieVars, facadeVars, upd, config, cstate, cancelFunc, mu, wg, ctxDone, cache, local,
                   nfetch, closed>>

\* variant: the worker returns when its refresh fails
FailReturn_workerStops(t, err) ==
    IF t = "bg"
    THEN /\ pc' = [pc EXCEPT ![t] = "w_exit"]
         /\ UNCHANGED <<ret, constructed>>
    ELSE IF constructed = "pending"
    THEN /\ pc' = [pc EXCEPT ![t] = "dead"]
         /\ ret' = [ret EXCEPT ![t] = InitializationError(err)]
         /\ constructed' = "err"
    ELSE /\ pc' = [pc EXCEPT ![t] = "idle"]
         /\ ret' = [ret EXCEPT ![t] = err]
         /\ UNCHANGED constructed

\* variant: the worker is started although init failed
FailReturn_startsWorker(t, err) ==
    IF t = "bg"
    THEN /\ pc' = [pc EXCEPT ![t] = "w_select"]
         /\ UNCHANGED <<ret, constructed>>
    ELSE IF constructed = "pending"
    THEN /\ pc' = [pc EXCEPT ![t] = "dead", !["bg"] = "w_select"]
         /\ ret' = [ret EXCEPT ![t] = InitializationError(err)]
         /\ constructed' = "err"
    ELSE /\ pc' = [pc EXCEPT ![t] = "idle"]
         /\ ret' = [ret EXCEPT ![t] = err]
         /\ UNCHANGED constructed

\* the error a failed downloadAndLoad ends in, as its caller hands it on:
\* init wraps it, RefreshWithContext returns it, the worker logs it
FailReturn(t, err) ==
    IF t = "bg"
    THEN /\ pc' = [pc EXCEPT ![t] = "w_select"]
         /\ UNCHANGED <<ret, constructed>>
    ELSE IF constructed = "pending"
    THEN /\ pc' = [pc EXCEPT ![t] = "dead"]
         /\ ret' = [ret EXCEPT ![t] = InitializationError(err)]
         /\ constructed' = "err"
    ELSE /\ pc' = [pc EXCEPT ![t] = "idle"]
         /\ ret' = [ret EXCEPT ![t] = err]
         /\ UNCHANGED constructed

\* init, first half: loadFromCache succeeds, and init goes on to
\* applyCustomDomains
NewLoadFromCacheOk ==
    /\ pc["main"] = "new"
    /\ cache.kind # "nofile"
    /\ LET d == Deserialize(cache, CacheGen)
       IN  /\ d.err = ""
           /\ blocklist' = d.blocklist
           /\ allowlist' = d.allowlist
           /\ initialized' = TRUE
           /\ lastUpdated' = d.dataFile.CreatedAt
           /\ version' = d.dataFile.Version
    /\ pc' = [pc EXCEPT !["main"] = "ap_lock"]
    /\ UNCHANGED <<trieVars, facadeVars, upd, config, cancelFunc, mu, wg, ctxDone, cache, local, ret,
                   nfetch, closed, constructed>>

\* variant: init downloads whatever loadFromCache returned
InitFallsBack_always(err) == TRUE

\* whether init goes on to download after loadFromCache returned err
InitFallsBack(err) == err # ""

\* init, first half: loadFromCache fails (no file, or the file does not
\* decode) and hands its error to init, which starts downloadAndLoad
NewLoadFromCacheFail ==
    /\ pc["main"] = "new"
    /\ InitFallsBack(loadFromCache(cache))
    /\ ret' = [ret EXCEPT !["main"] = loadFromCache(cache)]
    /\ nfetch < MaxFetches
    /\ nfetch' = nfetch + 1
    /\ local' = [local EXCEPT !["main"].fetchId = nfetch + 1]
    /\ pc' = [pc EXCEPT !["main"] = "dl_fetch"]
    /\ UNCHANGED <<trieVars, facadeVars, upd, config, cstate, cancelFunc, mu, wg, ctxDone, cache,
                   closed, constructed>>

\* New, after init returned nil: start the worker if configured, return c
NewStartWorker ==
    /\ pc["main"] = "n_worker"
    /\ IF config.AutoRefresh
       THEN /\ cancelFunc' = TRUE
            /\ wg' = wg + 1
            /\ pc' = [pc EXCEPT !["main"] = "idle", !["bg"] = "w_select"]
       ELSE /\ pc' = [pc EXCEPT !["main"] = "idle"]
            /\ UNCHANGED <<cancelFunc, wg>>
    /\ ret' = [ret EXCEPT !["main"] = "nil"]
    /\ constructed' = "ok"
    /\ UNCHANGED <<trieVars, facadeVars, upd, config, cstate, mu, ctxDone, cache, local, nfetch, closed>>

(***************************************************************************)
(* downloadAndLoad, step by step                                           *)
(***************************************************************************)
\* downloadData returns an error (transport failure, non-200 status, or the
\* request's context is cancelled)
FetchFail(t) ==
    /\ pc[t] = "dl_fetch"
    /\ FailReturn(t, "DownloadError")
    /\ local' = [local EXCEPT ![t] = Local0]
    /\ UNCHANGED <<trieVars, facadeVars, upd, config, cstate, cancelFunc, mu, wg, ctxDone, cache, nfetch,
                   closed>>

\* variant: the callers' refreshes run under the context Close cancels
CtxCancelled_shared(t) == ctxDone

\* the context downloadData runs under is cancelled: only the worker's
\* context can be, the callers pass context.Background()
CtxCancelled(t) == t = "bg" /\ ctxDone

\* downloadData returns the bytes the server sent
FetchOk(t, b) ==
    /\ pc[t] = "dl_fetch"
    /\ ~CtxCancelled(t)
    /\ local' = [local EXCEPT ![t].fileData = b]
    /\ pc' = [pc EXCEPT ![t] = "dl_decode"]
    /\ UNCHANGED <<trieVars, facadeVars, upd, config, cstate, cancelFunc, mu, wg, ctxDone, cache, ret,
                   nfetch, closed, constructed>>

\* variant: the indexes are assigned before the error is looked at
DecodeFail_installs(t) ==
    /\ pc[t] = "dl_decode"
    /\ Deserialize(local[t].fileData, local[t].fetchId).err # ""
    /\ FailReturn(t, DeserializationError("download"))
    /\ local' = [local EXCEPT ![t] = Local0]
    /\ blocklist' = New(local[t].fetchId)
    /\ allowlist' = New(local[t].fetchId)
    /\ UNCHANGED <<trieVars, facadeVars, upd, config, initialized, lastUpdated, version, cancelFunc, mu,
                   wg, ctxDone, cache, nfetch, closed>>

\* variant: the fetched bytes are saved before they are validated
DecodeFail_savesFirst(t) ==
    /\ pc[t] = "dl_decode"
    /\ Deserialize(local[t].fileData, local[t].fetchId).err # ""
    /\ FailReturn(t, DeserializationError("download"))
    /\ local' = [local EXCEPT ![t] = Local0]
    /\ cache' = local[t].fileData
    /\ UNCHANGED <<trieVars, facadeVars, upd, config, cstate, cancelFunc, mu, wg, ctxDone, nfetch,
                   closed>>

\* trie.Deserialize fails: return DeserializationError{Source: "download"}
DecodeFail(t) ==
    /\ pc[t] = "dl_decode"
    /\ Deserialize(local[t].fileData, local[t].fetchId).err # ""
    /\ FailReturn(t, DeserializationError("download"))
    /\ local' = [local EXCEPT ![t] = Local0]
    /\ UNCHANGED <<trieVars, facadeVars, upd, config, cstate, cancelFunc, mu, wg, ctxDone, cache, nfetch,
                   closed>>

\* trie.Deserialize succeeds
DecodeOk(t) ==
    /\ pc[t] = "dl_decode"
    /\ \E d \in {Deserialize(local[t].fileData, local[t].fetchId)} :
           /\ d.err = ""
           /\ local' = [local EXCEPT ![t].nb = d.blocklist,
                                     ![t].na = d.allowlist,
                                     ![t].df = d.dataFile]
    /\ pc' = [pc EXCEPT ![t] = "dl_write"]
    /\ UNCHANGED <<trieVars, facadeVars, upd, config, cstate, cancelFunc, mu, wg, ctxDone, cache, ret,
                   nfetch, closed, constructed>>

\* variant: a failed write of the cache file ends the call with a CacheError
WriteCache_failReturns(t, ok) ==
    /\ pc[t] = "dl_write"
    /\ IF ok
       THEN /\ cache' = local[t].fileData
            /\ pc' = [pc EXCEPT ![t] = "dl_lock"]
            /\ UNCHANGED <<local, ret, constructed>>
       ELSE /\ FailReturn(t, "CacheError")
            /\ local' = [local EXCEPT ![t] = Local0]
            /\ UNCHANGED cache
    /\ UNCHANGED <<trieVars, facadeVars, upd, config, cstate, cancelFunc, mu, wg, ctxDone, nfetch, closed>>

\* os.WriteFile of the cache file: it may fail, which is only logged
WriteCache(t, ok) ==
    /\ pc[t] = "dl_write"
    /\ IF ok
       THEN cache' = local[t].fileData
       ELSE UNCHANGED cache
    /\ pc' = [pc EXCEPT ![t] = "dl_lock"]
    /\ UNCHANGED <<trieVars, facadeVars, upd, config, cstate, cancelFunc, mu, wg, ctxDone, local, ret,
                   nfetch, closed, constructed>>

\* variant: the decoded blocklist is merged into the installed one
Swap1_merges(t) ==
    /\ pc[t] = "dl_lock"
    /\ LockFree
    /\ mu' = [mu EXCEPT !.w = t]
    /\ blocklist' = [local[t].nb EXCEPT
                        !.nodes = @ \cup blocklist.nodes,
                        !.ends = @ \cup blocklist.ends,
                        !.size = Cardinality(local[t].nb.ends \cup blocklist.ends)]
    /\ pc' = [pc EXCEPT ![t] = "dl_swap2"]
    /\ UNCHANGED <<trieVars, facadeVars, upd, config, allowlist, initialized, lastUpdated, version,
                   cancelFunc, wg, ctxDone, cache, local, ret, nfetch,
                   closed, constructed>>

\* c.mu.Lock(); c.blocklist = blocklist
Swap1(t) ==
    /\ pc[t] = "dl_lock"
    /\ LockFree
    /\ mu' = [mu EXCEPT !.w = t]
    /\ blocklist' = local[t].nb
    /\ pc' = [pc EXCEPT ![t] = "dl_swap2"]
    /\ UNCHANGED <<trieVars, facadeVars, upd, config, allowlist, initialized, lastUpdated, version,
                   cancelFunc, wg, ctxDone, cache, local, ret, nfetch,
                   closed, constructed>>

\* c.allowlist = allowlist and the metadata; the deferred Unlock; return nil
\* (the call keeps its number until its caller has applied the custom domains)
Swap2(t) ==
    /\ pc[t] = "dl_swap2"
    /\ allowlist' = local[t].na
    /\ initialized' = TRUE
    /\ lastUpdated' = local[t].df.CreatedAt
    /\ version' = local[t].df.Version
    /\ mu' = [mu EXCEPT !.w = "none"]
    /\ pc' = [pc EXCEPT ![t] = "ap_lock"]
    /\ local' = [local EXCEPT ![t] = [Local0 EXCEPT !.fetchId = local[t].fetchId]]
    /\ UNCHANGED <<trieVars, facadeVars, upd, config, blocklist, cancelFunc, wg, ctxDone, cache, ret,
                   nfetch, closed, constructed>>

(***************************************************************************)
(* applyCustomDomains                                                      *)
(***************************************************************************)
RECURSIVE NormalizeAll(_)
NormalizeAll(domains) ==
    IF domains = <<>> THEN <<>>
    ELSE <<NormalizeDomain(Head(domains))>> \o NormalizeAll(Tail(domains))

\* variant: the custom domains are not re-applied
ApplyCustom_skipped(t, custom) == t

\* the index applyCustomDomains leaves behind for one of the two lists: the
\* configured domains are normalized, then inserted one after the other
ApplyCustom(t, custom) ==
    CHOOSE u \in {InsertAll(t, normalized) : normalized \in {NormalizeAll(custom)}} : TRUE

\* applyCustomDomains as a whole (Lock, the two loops, the deferred Unlock),
\* and the caller's return nil
Apply(t) ==
    /\ pc[t] = "ap_lock"
    /\ LockFree
    /\ blocklist' = ApplyCustom(blocklist, config.CustomBlocklist)
    /\ allowlist' = ApplyCustom(allowlist, config.CustomAllowlist)
    /\ UNCHANGED mu
    /\ IF t = "bg"
       THEN pc' = [pc EXCEPT ![t] = "w_select"] /\ UNCHANGED ret
       ELSE IF constructed = "pending"
       THEN pc' = [pc EXCEPT ![t] = "n_worker"] /\ UNCHANGED ret
       ELSE pc' = [pc EXCEPT ![t] = "idle"] /\ ret' = [ret EXCEPT ![t] = "nil"]
    /\ local' = [local EXCEPT ![t] = Local0]
    /\ UNCHANGED <<trieVars, facadeVars, upd, config, initialized, lastUpdated, version, cancelFunc, wg,
                   ctxDone, cache, nfetch, closed, constructed>>


(***************************************************************************)
(* Calls on a constructed Checker                                          *)
(***************************************************************************)
\* variant: a closed Checker takes no more calls
CanCall_untilClosed(t) == constructed = "ok" /\ pc[t] = "idle" /\ ~closed

CanCall(t) == constructed = "ok" /\ pc[t] = "idle"

BoolStr(b) == IF b THEN "true" ELSE "false"

\* variant: the query does not take the read lock
QueryMayEnter_unlocked == TRUE

\* c.mu.RLock() lets the query in
QueryMayEnter == RLockFree

\* variant: a cancelled context ends the query with false
CtxEndsQuery_checked(cancelled) == cancelled

\* what IsDisposableWithContext makes of its ctx argument: the function body
\* never mentions it
CtxEndsQuery(cancelled) == FALSE

\* IsDisposableWithContext up to and including c.mu.RLock(): an input with
\* an empty domain returns false before the lock is touched; cancelled says
\* whether the context passed in is cancelled
IsDisposableWithContext(t, cancelled, x) ==
    /\ CanCall(t)
    /\ \E domain \in {ExtractDomain(x)} :
           IF domain = <<>> \/ CtxEndsQuery(cancelled)
           THEN /\ ret' = [ret EXCEPT ![t] = "false"]
                /\ UNCHANGED <<mu, local, pc>>
           ELSE /\ QueryMayEnter
                /\ mu' = [mu EXCEPT !.r = @ \cup {t}]
                /\ local' = [local EXCEPT ![t].domain = NormalizeDomain(domain)]
                /\ pc' = [pc EXCEPT ![t] = "q_allow"]
                /\ UNCHANGED ret
    /\ UNCHANGED <<trieVars, facadeVars, upd, config, cstate, cancelFunc, wg, ctxDone, cache, nfetch,
                   closed, constructed>>

\* IsDisposable: the query with context.Background()
IsDisposableCall(t, x) == IsDisposableWithContext(t, FALSE, x)

\* variant: the allowlist hit does not end the query
QueryAllow_noPrecedence(t) ==
    /\ pc[t] = "q_allow"
    /\ local' = [local EXCEPT ![t].obsA = allowlist.gen]
    /\ pc' = [pc EXCEPT ![t] = "q_block"]
    /\ UNCHANGED <<trieVars, facadeVars, upd, config, cstate, cancelFunc, mu, wg, ctxDone, cache, ret,
                   nfetch, closed, constructed>>

\* if c.allowlist.ContainsHierarchical(domain) { return false }
QueryAllow(t) ==
    /\ pc[t] = "q_allow"
    /\ IF ContainsHierarchical(allowlist, local[t].domain)
       THEN /\ local' = [local EXCEPT ![t].result = FALSE,
                                      ![t].obsA = allowlist.gen]
            /\ pc' = [pc EXCEPT ![t] = "q_unlock"]
       ELSE /\ local' = [local EXCEPT ![t].obsA = allowlist.gen]
            /\ pc' = [pc EXCEPT ![t] = "q_block"]
    /\ UNCHANGED <<trieVars, facadeVars, upd, config, cstate, cancelFunc, mu, wg, ctxDone, cache, ret,
                   nfetch, closed, constructed>>

\* return c.blocklist.ContainsHierarchical(domain)
QueryBlock(t) ==
    /\ pc[t] = "q_block"
    /\ local' = [local EXCEPT ![t].result = ContainsHierarchical(blocklist, local[t].domain),
                              ![t].obsB = blocklist.gen]
    /\ pc' = [pc EXCEPT ![t] = "q_unlock"]
    /\ UNCHANGED <<trieVars, facadeVars, upd, config, cstate, cancelFunc, mu, wg, ctxDone, cache, ret,
                   nfetch, closed, constructed>>

\* the deferred c.mu.RUnlock() and the return
QueryReturn(t) ==
    /\ pc[t] = "q_unlock"
    /\ mu' = [mu EXCEPT !.r = @ \ {t}]
    /\ ret' = [ret EXCEPT ![t] = BoolStr(local[t].result)]
    /\ local' = [local EXCEPT ![t] = Local0]
    /\ pc' = [pc EXCEPT ![t] = "idle"]
    /\ UNCHANGED <<trieVars, facadeVars, upd, config, cstate, cancelFunc, wg, ctxDone, cache, nfetch,
                   closed, constructed>>

\* variant: the domains are inserted as given, without NormalizeDomain
AddDomains_raw(t, domains) ==
    /\ CanCall(t)
    /\ LockFree
    /\ blocklist' = InsertAll(blocklist, domains)
    /\ UNCHANGED <<trieVars, facadeVars, upd, config, allowlist, initialized, lastUpdated, version,
                   cancelFunc, mu, wg, ctxDone, cache, pc, local, ret, nfetch,
                   closed, constructed>>

\* AddDomains as a whole: Lock, the loop, the deferred Unlock
AddDomains(t, domains) ==
    /\ CanCall(t)
    /\ LockFree
    /\ \E normalized \in {NormalizeAll(domains)} :
            blocklist' = InsertAll(blocklist, normalized)
    /\ UNCHANGED <<trieVars, facadeVars, upd, config, allowlist, initialized, lastUpdated, version,
                   cancelFunc, mu, wg, ctxDone, cache, pc, local, ret, nfetch,
                   closed, constructed>>

\* AddAllowlist as a whole: Lock, the loop, the deferred Unlock
AddAllowlist(t, domains) ==
    /\ CanCall(t)
    /\ LockFree
    /\ \E normalized \in {NormalizeAll(domains)} :
            allowlist' = InsertAll(allowlist, normalized)
    /\ UNCHANGED <<trieVars, facadeVars, upd, config, blocklist, initialized, lastUpdated, version,
                   cancelFunc, mu, wg, ctxDone, cache, pc, local, ret, nfetch,
                   closed, constructed>>

\* variant: the refresh takes the write lock before it downloads
RefreshCall_locks(t) ==
    /\ CanCall(t)
    /\ nfetch < MaxFetches
    /\ LockFree
    /\ mu' = [mu EXCEPT !.w = t]
    /\ nfetch' = nfetch + 1
    /\ local' = [local EXCEPT ![t].fetchId = nfetch + 1]
    /\ pc' = [pc EXCEPT ![t] = "dl_fetch"]
    /\ UNCHANGED <<trieVars, facadeVars, upd, config, cstate, cancelFunc, wg, ctxDone, cache,
                   ret, closed, constructed>>

\* Refresh / RefreshWithContext: enters downloadAndLoad, which starts the
\* download
RefreshCall(t) ==
    /\ CanCall(t)
    /\ nfetch < MaxFetches
    /\ nfetch' = nfetch + 1
    /\ local' = [local EXCEPT ![t].fetchId = nfetch + 1]
    /\ pc' = [pc EXCEPT ![t] = "dl_fetch"]
    /\ UNCHANGED <<trieVars, facadeVars, upd, config, cstate, cancelFunc, mu, wg, ctxDone, cache,
                   ret, closed, constructed>>

(***************************************************************************)
(* Stats                                                                   *)
(***************************************************************************)
\* Checker.Stats
Stats(bl, al, updated, ver) ==
    [BlocklistCount |-> Size(bl), AllowlistCount |-> Size(al),
     LastUpdated |-> updated, Version |-> ver]

\* variant: Stats reads the fields without the lock
StatsMayEnter_unlocked == TRUE

\* c.mu.RLock() of Stats
StatsMayEnter == RLockFree

\* Stats up to the Statistics value it builds under the read lock
StatsRead(t) ==
    /\ CanCall(t)
    /\ StatsMayEnter
    /\ mu' = [mu EXCEPT !.r = @ \cup {t}]
    /\ local' = [local EXCEPT ![t].stats =
                                Stats(blocklist, allowlist, lastUpdated, version)]
    /\ pc' = [pc EXCEPT ![t] = "st_unlock"]
    /\ UNCHANGED <<trieVars, facadeVars, upd, config, cstate, cancelFunc, wg, ctxDone, cache, ret,
                   nfetch, closed, constructed>>

\* the deferred RUnlock of Stats, and its return
StatsReturn(t) ==
    /\ pc[t] = "st_unlock"
    /\ mu' = [mu EXCEPT !.r = @ \ {t}]
    /\ local' = [local EXCEPT ![t] = Local0]
    /\ pc' = [pc EXCEPT ![t] = "idle"]
    /\ UNCHANGED <<trieVars, facadeVars, upd, config, cstate, cancelFunc, wg, ctxDone, cache, ret,
                   nfetch, closed, constructed>>

(***************************************************************************)
(* Close and the autoRefreshWorker                                         *)
(***************************************************************************)
\* variant: Close waits without cancelling
CancelIfSet_never(hasCancel, done) == done

\* the worker's context after Close ran "if c.cancelFunc != nil { c.cancelFunc() }"
CancelIfSet(hasCancel, done) == IF hasCancel THEN TRUE ELSE done

\* variant: Close does not wait for the worker
WaitReturns_nowait(counter) == TRUE

\* c.wg.Wait() returns
WaitReturns(counter) == counter = 0

\* variant: a Close after the first reports an error
CloseResult_errOnSecond(wasClosed) == IF wasClosed THEN "ErrClosed" ELSE "nil"

\* what Close returns; wasClosed: an earlier Close has already returned
CloseResult(wasClosed) == "nil"

\* variant: Close holds the Checker's write lock while it waits for the worker
CloseCancel_locked(t) ==
    /\ CanCall(t)
    /\ LockFree
    /\ mu' = [mu EXCEPT !.w = t]
    /\ ctxDone' = CancelIfSet(cancelFunc, ctxDone)
    /\ pc' = [pc EXCEPT ![t] = "cl_wait"]
    /\ UNCHANGED <<trieVars, facadeVars, upd, config, cstate, cancelFunc, wg, cache, local, ret,
                   nfetch, closed, constructed>>

\* Close up to c.wg.Wait()
CloseCancel(t) ==
    /\ CanCall(t)
    /\ ctxDone' = CancelIfSet(cancelFunc, ctxDone)
    /\ pc' = [pc EXCEPT ![t] = "cl_wait"]
    /\ UNCHANGED <<trieVars, facadeVars, upd, config, cstate, cancelFunc, mu, wg, cache, local, ret,
                   nfetch, closed, constructed>>

\* c.wg.Wait() returns and Close returns nil
CloseWait(t) ==
    /\ pc[t] = "cl_wait"
    /\ WaitReturns(wg)
    /\ ret' = [ret EXCEPT ![t] = CloseResult(closed)]
    /\ closed' = TRUE
    /\ pc' = [pc EXCEPT ![t] = "idle"]
    /\ UNCHANGED <<trieVars, facadeVars, upd, config, cstate, cancelFunc, mu, wg, ctxDone, cache, local,
                   nfetch, constructed>>

\* the worker's select takes "case <-ctx.Done(): return"; the deferred
\* c.wg.Done() runs
WorkerDone ==
    /\ pc["bg"] = "w_select"
    /\ ctxDone
    /\ wg' = wg - 1
    /\ pc' = [pc EXCEPT !["bg"] = "w_exit"]
    /\ UNCHANGED <<trieVars, facadeVars, upd, config, cstate, cancelFunc, mu, ctxDone, cache, local, ret,
                   nfetch, closed, constructed>>

\* the worker's select takes "case <-ticker.C": RefreshWithContext(ctx)
\* starts its download
WorkerTick ==
    /\ pc["bg"] = "w_select"
    /\ nfetch < MaxFetches
    /\ nfetch' = nfetch + 1
    /\ local' = [local EXCEPT !["bg"].fetchId = nfetch + 1]
    /\ pc' = [pc EXCEPT !["bg"] = "dl_fetch"]
    /\ UNCHANGED <<trieVars, facadeVars, upd, config, cstate, cancelFunc, mu, wg, ctxDone, cache,
                   ret, closed, constructed>>

(***************************************************************************)
(* Specifications                                                          *)
(***************************************************************************)
\* a step of thread t inside a call it has already started
Progress(t) ==
    \/ FetchFail(t)
    \/ \E b \in ServerBlobs : FetchOk(t, b)
    \/ DecodeFail(t)
    \/ DecodeOk(t)
    \/ \E ok \in BOOLEAN : WriteCache(t, ok)
    \/ Swap2(t)
    \/ QueryAllow(t)
    \/ QueryBlock(t)
    \/ QueryReturn(t)
    \/ CloseWait(t)

Next ==
    \/ \E ok \in BOOLEAN : NewMkdirAll(ok)
    \/ NewLoadFromCacheOk
    \/ NewLoadFromCacheFail
    \/ NewStartWorker
    \/ \E t \in Threads : FetchFail(t)
    \/ \E t \in Threads, b \in ServerBlobs : FetchOk(t, b)
    \/ \E t \in Threads : DecodeFail(t)
    \/ \E t \in Threads : DecodeOk(t)
    \/ \E t \in Threads, ok \in BOOLEAN : WriteCache(t, ok)
    \/ \E t \in Threads : Swap1(t)
    \/ \E t \in Threads : Swap2(t)
    \/ \E t \in Threads : Apply(t)
    \/ \E t \in Queriers, x \in QueryInputs, cancelled \in BOOLEAN :
            IsDisposableWithContext(t, cancelled, x)
    \/ \E t \in Queriers : QueryAllow(t)
    \/ \E t \in Queriers : QueryBlock(t)
    \/ \E t \in Queriers : QueryReturn(t)
    \/ \E t \in Mutators, ds \in AddArgs : AddDomains(t, ds)
    \/ \E t \in Mutators, ds \in AllowArgs : AddAllowlist(t, ds)
    \/ \E t \in Mutators : RefreshCall(t)
    \/ \E t \in Clients : CloseCancel(t)
    \/ \E t \in Clients : CloseWait(t)
    \/ WorkerDone
    \/ WorkerTick

Spec == Init /\ [][Next]_vars

\* The Checker with auto-refresh, built from a cache file that decodes, whose
\* callers query it and close it while the worker refreshes in the background
FairInit ==
    /\ Init
    /\ config.AutoRefresh
    /\ cache = blobS1

FairNext ==
    \/ NewMkdirAll(TRUE)
    \/ NewLoadFromCacheOk
    \/ NewStartWorker
    \/ FetchFail("bg")
    \/ \E b \in ServerBlobs : FetchOk("bg", b)
    \/ DecodeFail("bg")
    \/ DecodeOk("bg")
    \/ \E ok \in BOOLEAN : WriteCache("bg", ok)
    \/ Swap1("bg")
    \/ Swap2("bg")
    \/ \E t \in {"main", "bg"} : Apply(t)
    \/ \E t \in Queriers, x \in QueryInputs : IsDisposableCall(t, x)
    \/ \E t \in Queriers : QueryAllow(t)
    \/ \E t \in Queriers : QueryBlock(t)
    \/ \E t \in Queriers : QueryReturn(t)
    \/ \E t \in Clients : CloseCancel(t)
    \/ \E t \in Clients : CloseWait(t)
    \/ WorkerDone
    \/ WorkerTick

\* Scheduling: a thread inside a call keeps running (a download ends, by an
\* answer, an error or the HTTP timeout); a thread waiting for the write
\* lock gets it (sync.RWMutex does not starve writers); a select whose
\* ctx.Done() case is ready while the ticker is not takes it.  Nothing
\* obliges a caller to start a call or the ticker to fire.
FairSpec ==
    /\ FairInit
    /\ [][FairNext]_vars
    /\ \A t \in Threads : WF_vars(Progress(t))
    /\ \A t \in Threads : SF_vars(Swap1(t) \/ Apply(t))
    /\ WF_vars(WorkerDone)

(***************************************************************************)
(* The Checker with a caller of Stats in the place of the caller of        *)
(* IsDisposable                                                            *)
(***************************************************************************)
StatsInit ==
    /\ Init
    /\ config.AutoRefresh

StatsNext ==
    \/ \E ok \in BOOLEAN : NewMkdirAll(ok)
    \/ NewLoadFromCacheOk
    \/ NewLoadFromCacheFail
    \/ NewStartWorker
    \/ \E t \in Threads : FetchFail(t)
    \/ \E t \in Threads, b \in ServerBlobs : FetchOk(t, b)
    \/ \E t \in Threads : DecodeFail(t)
    \/ \E t \in Threads : DecodeOk(t)
    \/ \E t \in Threads, ok \in BOOLEAN : WriteCache(t, ok)
    \/ \E t \in Threads : Swap1(t)
    \/ \E t \in Threads : Swap2(t)
    \/ \E t \in Threads : Apply(t)
    \/ \E t \in Queriers : StatsRead(t)
    \/ \E t \in Queriers : StatsReturn(t)
    \/ \E t \in Mutators, ds \in AddArgs : AddDomains(t, ds)
    \/ \E t \in Mutators, ds \in AllowArgs : AddAllowlist(t, ds)
    \/ \E t \in Mutators : RefreshCall(t)
    \/ \E t \in Clients : CloseCancel(t)
    \/ \E t \in Clients : CloseWait(t)
    \/ WorkerDone
    \/ WorkerTick

StatsSpec == StatsInit /\ [][StatsNext]_vars

(***************************************************************************)
(* AddDomains and AddAllowlist one statement at a time, with callers of    *)
(* Stats, GetBlocklist, GetAllowlist and IsDisposable beside them          *)
(***************************************************************************)
\* the domains each caller passes to AddDomains and to AddAllowlist
StepAddArgs ==
    [t \in Clients |-> IF t = "main" THEN <<d_mtc, d_ntc>> ELSE <<d_ic, <<"c">>>>]

\* variant: the additions take no lock
AddMayEnter_unlocked == TRUE

\* c.mu.Lock() of AddDomains and AddAllowlist
AddMayEnter == LockFree

\* c.mu.Lock(); defer c.mu.Unlock(); index is the trie the call inserts into
AddLock(t, index, domains) ==
    /\ CanCall(t)
    /\ AddMayEnter
    /\ mu' = [mu EXCEPT !.w = t]
    /\ local' = [local EXCEPT ![t].index = index, ![t].todo = domains]
    /\ pc' = [pc EXCEPT ![t] = "ad_loop"]
    /\ UNCHANGED <<trieVars, facadeVars, upd, config, cstate, cancelFunc, wg, ctxDone, cache, ret,
                   nfetch, closed, constructed>>

\* one turn of the loop: Insert(NormalizeDomain(d))
AddInsert(t) ==
    /\ pc[t] = "ad_loop"
    /\ local[t].todo # <<>>
    /\ \E domain \in {NormalizeDomain(Head(local[t].todo))} :
          IF local[t].index = "blocklist"
          THEN /\ blocklist' = Insert(blocklist, domain)
               /\ UNCHANGED allowlist
          ELSE /\ allowlist' = Insert(allowlist, domain)
               /\ UNCHANGED blocklist
    /\ local' = [local EXCEPT ![t].todo = Tail(@)]
    /\ UNCHANGED <<trieVars, facadeVars, upd, config, initialized, lastUpdated, version,
                   cancelFunc, mu, wg, ctxDone, cache, pc, ret, nfetch, closed, constructed>>

\* the loop is over: the deferred Unlock, and the return
AddUnlock(t) ==
    /\ pc[t] = "ad_loop"
    /\ local[t].todo = <<>>
    /\ mu' = [mu EXCEPT !.w = IF @ = t THEN "none" ELSE @]
    /\ ret' = [ret EXCEPT ![t] = local[t].index]
    /\ local' = [local EXCEPT ![t] = Local0]
    /\ pc' = [pc EXCEPT ![t] = "idle"]
    /\ UNCHANGED <<trieVars, facadeVars, upd, config, cstate, cancelFunc, wg, ctxDone, cache,
                   nfetch, closed, constructed>>

\* GetBlocklist and GetAllowlist up to the list GetAll returns under the
\* read lock
GetListRead(t, index) ==
    /\ CanCall(t)
    /\ RLockFree
    /\ mu' = [mu EXCEPT !.r = @ \cup {t}]
    /\ local' = [local EXCEPT ![t].index = index,
                              ![t].list = IF index = "blocklist" THEN GetAll(blocklist)
                                          ELSE GetAll(allowlist)]
    /\ pc' = [pc EXCEPT ![t] = "gl_unlock"]
    /\ UNCHANGED <<trieVars, facadeVars, upd, config, cstate, cancelFunc, wg, ctxDone, cache, ret,
                   nfetch, closed, constructed>>

\* the deferred RUnlock of GetBlocklist and GetAllowlist, and the return
GetListReturn(t) ==
    /\ pc[t] = "gl_unlock"
    /\ mu' = [mu EXCEPT !.r = @ \ {t}]
    /\ local' = [local EXCEPT ![t] = Local0]
    /\ pc' = [pc EXCEPT ![t] = "idle"]
    /\ UNCHANGED <<trieVars, facadeVars, upd, config, cstate, cancelFunc, wg, ctxDone, cache, ret,
                   nfetch, closed, constructed>>

\* a Checker without worker, constructed from a cached snapshot
AddInit ==
    /\ Init
    /\ ~config.AutoRefresh
    /\ cache = blobS1

AddNext ==
    \/ NewMkdirAll(TRUE)
    \/ NewLoadFromCacheOk
    \/ NewStartWorker
    \/ \E t \in Clients : Apply(t)
    \/ \E t \in Clients, index \in TrieNames : AddLock(t, index, StepAddArgs[t])
    \/ \E t \in Clients : AddInsert(t)
    \/ \E t \in Clients : AddUnlock(t)
    \/ \E t \in Clients, index \in TrieNames : GetListRead(t, index)
    \/ \E t \in Clients : GetListReturn(t)
    \/ \E t \in Clients : StatsRead(t)
    \/ \E t \in Clients : StatsReturn(t)
    \/ \E t \in Clients : IsDisposableCall(t, d_mtc)
    \/ \E t \in Clients : QueryAllow(t)
    \/ \E t \in Clients : QueryBlock(t)
    \/ \E t \in Clients : QueryReturn(t)

AddSpec == AddInit /\ [][AddNext]_vars

\* The Checker with auto-refresh and every kind of call made on it: "main"
\* refreshes, adds and closes, "c2" queries, reads the statistics and the
\* blocklist and closes, the worker refreshes; a download fails or brings
\* snapshot 2.0
LiveNext ==
    \/ NewMkdirAll(TRUE)
    \/ NewLoadFromCacheOk
    \/ NewStartWorker
    \/ \E t \in Threads : FetchFail(t)
    \/ \E t \in Threads : FetchOk(t, blobS2)
    \/ \E t \in Threads : DecodeOk(t)
    \/ \E t \in Threads : WriteCache(t, TRUE)
    \/ \E t \in Threads : Swap1(t)
    \/ \E t \in Threads : Swap2(t)
    \/ \E t \in Threads : Apply(t)
    \/ \E t \in Queriers : IsDisposableCall(t, d_mtc)
    \/ \E t \in Queriers : QueryAllow(t)
    \/ \E t \in Queriers : QueryBlock(t)
    \/ \E t \in Queriers : QueryReturn(t)
    \/ \E t \in Queriers : StatsRead(t)
    \/ \E t \in Queriers : StatsReturn(t)
    \/ \E t \in Queriers : GetListRead(t, "blocklist")
    \/ \E t \in Queriers : GetListReturn(t)
    \/ \E t \in Mutators : AddLock(t, "blocklist", StepAddArgs[t])
    \/ \E t \in Mutators : AddInsert(t)
    \/ \E t \in Mutators : AddUnlock(t)
    \/ \E t \in Mutators : RefreshCall(t)
    \/ \E t \in Clients : CloseCancel(t)
    \/ \E t \in Clients : CloseWait(t)
    \/ WorkerDone
    \/ WorkerTick

\* a step of thread t inside any call it has already started
LiveProgress(t) ==
    \/ Progress(t)
    \/ StatsReturn(t)
    \/ GetListReturn(t)
    \/ AddInsert(t)
    \/ AddUnlock(t)

\* Scheduling as in FairSpec: running threads keep running, downloads end,
\* a thread waiting for the write lock gets it when it is free again and
\* again, the worker's select takes a ready ctx.Done()
LiveSpec ==
    /\ FairInit
    /\ [][LiveNext]_vars
    /\ \A t \in Threads : WF_vars(LiveProgress(t))
    /\ \A t \in Threads : SF_vars(Swap1(t) \/ Apply(t))
    /\ WF_vars(WorkerDone)

(***************************************************************************)
(* The trie package used on its own: two tries that are inserted into,     *)
(* cleared, and serialized and deserialized again                          *)
(***************************************************************************)
\* "com", two strings that are not valid UTF-8 ("\xff", "\xfe"), and the
\* string that consists of the rune U+FFFD
s_c == <<"c">>
s_ff == <<"xFF">>
s_fe == <<"xFE">>
s_ufffd == <<RuneError>>

\* the strings the callers pass to Insert on each trie
InsertArgs ==
    [k \in TrieNames |->
        IF k = "blocklist" THEN {<<>>, d_tc, d_mtc, s_c, s_ff, s_ufffd}
        ELSE {<<>>, d_gc}]

\* tries[k].Insert(s)
TrieInsert(k, s) ==
    /\ tries' = [tries EXCEPT ![k] = Insert(@, s)]
    /\ inserted' = [inserted EXCEPT ![k] = @ \cup {s}]
    /\ UNCHANGED <<checkerVars, facadeVars, upd, restored, ser>>

\* tries[k].Clear()
TrieClear(k) ==
    /\ tries' = [tries EXCEPT ![k] = Clear(@)]
    /\ inserted' = [inserted EXCEPT ![k] = {}]
    /\ UNCHANGED <<checkerVars, facadeVars, upd, restored, ser>>

\* data, err := Serialize(blocklist, allowlist); Deserialize(data)
TrieRoundTrip ==
    /\ \E data \in Serialize(tries["blocklist"], tries["allowlist"]) :
            restored' = [out |-> Deserialize(data, RestoredGen),
                         B |-> inserted["blocklist"], A |-> inserted["allowlist"]]
    /\ UNCHANGED <<checkerVars, facadeVars, upd, tries, inserted, ser>>

TrieInit ==
    /\ Init
    /\ ~config.AutoRefresh
    /\ cache = NoFile

TrieNext ==
    \/ \E k \in TrieNames : \E s \in InsertArgs[k] : TrieInsert(k, s)
    \/ \E k \in TrieNames : TrieClear(k)
    \/ TrieRoundTrip

TrieSpec == TrieInit /\ [][TrieNext]_vars

\* Serialize statement by statement, beside a goroutine that inserts into
\* the two tries.  The fields of the DataFile literal are evaluated in the
\* order written: blocklist.Size(), blocklist.GetAll(), allowlist.GetAll(),
\* each of which takes and releases the trie's read lock by itself.
SerializeSize ==
    /\ ser.at = "none"
    /\ ser' = [NoSerialize EXCEPT !.at = "blocklist",
                                  !.DomainCount = Size(tries["blocklist"])]
    /\ UNCHANGED <<checkerVars, facadeVars, upd, tries, inserted, restored>>

\* Blocklist: blocklist.GetAll()
SerializeBlocklist ==
    /\ ser.at = "blocklist"
    /\ \E b \in Orderings(GetAll(tries["blocklist"])) :
            ser' = [ser EXCEPT !.at = "allowlist", !.Blocklist = b]
    /\ UNCHANGED <<checkerVars, facadeVars, upd, tries, inserted, restored>>

\* Allowlist: allowlist.GetAll(); the DataFile is complete and is encoded
SerializeAllowlist ==
    /\ ser.at = "allowlist"
    /\ \E a \in Orderings(GetAll(tries["allowlist"])) :
            ser' = [ser EXCEPT !.at = "done", !.Allowlist = a]
    /\ UNCHANGED <<checkerVars, facadeVars, upd, tries, inserted, restored>>

\* Serialize returns; a later call starts afresh
SerializeReturn ==
    /\ ser.at = "done"
    /\ ser' = NoSerialize
    /\ UNCHANGED <<checkerVars, facadeVars, upd, tries, inserted, restored>>

\* what the other goroutine inserts meanwhile
SerializeInsertArgs ==
    [k \in TrieNames |-> IF k = "blocklist" THEN {d_tc, d_mtc, s_c} ELSE {d_gc}]

SerializeNext ==
    \/ \E k \in TrieNames : \E s \in SerializeInsertArgs[k] : TrieInsert(k, s)
    \/ SerializeSize
    \/ SerializeBlocklist
    \/ SerializeAllowlist
    \/ SerializeReturn

SerializeSpec == TrieInit /\ [][SerializeNext]_vars

(***************************************************************************)
(* Helpers for the properties                                              *)
(***************************************************************************)
Range(q) == {q[i] : i \in 1..Len(q)}

\* IsDisposableWithContext run without interruption on indexes al, bl
IsDisposableIn(al, bl, x) ==
    LET domain == ExtractDomain(x)
    IN  IF domain = <<>> THEN FALSE
        ELSE IF ContainsHierarchical(al, NormalizeDomain(domain)) THEN FALSE
        ELSE ContainsHierarchical(bl, NormalizeDomain(domain))

\* a subdomain prefix of k labels: "m", "s.m", "s.s.m", ...
RECURSIVE PrefixOfDepth(_)
PrefixOfDepth(k) ==
    IF k <= 1 THEN <<"m">> ELSE <<"s", ".">> \o PrefixOfDepth(k - 1)

\* the subdomain prefixes P tried
Prefixes == {PrefixOfDepth(k) : k \in 1..MaxDepth}

Sub(P, D) == P \o <<".">> \o D

\* E itself and every suffix of E that starts right after a dot
DottedSuffixes(E) ==
    {E} \cup {SubSeq(E, i + 1, Len(E)) : i \in {j \in 1..Len(E) : E[j] = "."}}

\* the configured custom domains, normalized
NormalizedSet(custom) == {NormalizeDomain(custom[i]) : i \in 1..Len(custom)}

\* the tries that exist in a state: the installed ones and those a refresh
\* has decoded and not yet installed
TriesNow ==
    {blocklist, allowlist}
        \cup {local[t].nb : t \in {u \in Threads : pc[u] \in {"dl_write", "dl_lock"}}}
        \cup {local[t].na : t \in {u \in Threads : pc[u] \in {"dl_write", "dl_lock", "dl_swap2"}}}


(***************************************************************************)
(* Properties                                                              *)
(***************************************************************************)

\* C1: a query that has finished its checks (and still holds the read lock)
\* answers false when the allowlist hierarchically matches the normalized
\* domain, also when the blocklist matches it too, and otherwise answers
\* with the blocklist's hierarchical match; an input without a domain is
\* answered false.
C1_AllowlistPrecedence ==
    /\ [](\A t \in Queriers : pc[t] = "q_unlock" =>
            local[t].result =
                IF ContainsHierarchical(allowlist, local[t].domain) THEN FALSE
                ELSE ContainsHierarchical(blocklist, local[t].domain))
    /\ [][\A t \in Queriers :
            (pc[t] = "q_unlock" /\ pc'[t] = "idle") =>
                ret'[t] = BoolStr(~ContainsHierarchical(allowlist, local[t].domain)
                                  /\ ContainsHierarchical(blocklist, local[t].domain))]_vars

\* C1 witness: a query of a domain that both indexes match is answered false
C1_Witness ==
    \E t \in Queriers :
        /\ pc[t] = "q_unlock"
        /\ ContainsHierarchical(allowlist, local[t].domain)
        /\ ContainsHierarchical(blocklist, local[t].domain)
        /\ local[t].result = FALSE

\* a string that is a domain: not empty once normalized, and without '@'
IsDomainArg(D) == NormalizeDomain(D) # <<>> /\ LastIndex(D, "@") = 0

\* C2: every domain D stored in a trie is matched hierarchically, and so is
\* P.D for every non-empty prefix P; and when AddDomains(D) returns, D and
\* P.D are reported disposable unless the allowlist matches them.
C2_HierarchicalMatch ==
    /\ [](\A tr \in TriesNow : \A D \in GetAll(tr) :
            /\ ContainsHierarchical(tr, D)
            /\ \A P \in Prefixes : ContainsHierarchical(tr, Sub(P, D)))
    /\ [][\A t \in Mutators, ds \in AddArgs :
            (pc' = pc /\ AddDomains(t, ds)) =>
                \A D \in {a \in Range(ds) : IsDomainArg(a)} :
                    \A x \in {D} \cup {Sub(P, D) : P \in Prefixes} :
                        \/ IsDisposableIn(allowlist', blocklist', x)
                        \/ ContainsHierarchical(allowlist', NormalizeDomain(ExtractDomain(x)))]_vars

\* C2 witness: a domain added at run time is stored and one of its
\* subdomains is reported disposable
C2_Witness ==
    /\ version = blobS2.version
    /\ d_tc \in GetAll(blocklist)
    /\ IsDisposableIn(allowlist, blocklist, Sub(PrefixOfDepth(2), d_tc))

\* C3 as claimed: a domain that is neither stored nor a dot-delimited
\* subdomain of a stored domain is not matched; with only "tempmail.com"
\* blocked and nothing allowed, "nottempmail.com" is not disposable.
C3_NoMatchWithoutDottedSuffix ==
    /\ \A tr \in {blocklist, allowlist} : \A E \in ProbeDomains :
            DottedSuffixes(E) \cap GetAll(tr) = {} => ~ContainsHierarchical(tr, E)
    /\ (GetAll(blocklist) = {d_tc} /\ GetAll(allowlist) = {}) =>
            ~IsDisposableIn(allowlist, blocklist, d_ntc)

\* C4: a refresh that fails at the fetch or at the decode returns that
\* error, and neither that step nor any earlier step of the call changes
\* the indexes, the version, the timestamp or the initialized flag.
C4_FailedRefreshKeepsState ==
    [][\A t \in Threads : constructed = "ok" =>
        /\ (pc[t] \in {"idle", "w_select"} /\ pc'[t] = "dl_fetch") => UNCHANGED cstate
        /\ (pc[t] \in {"dl_fetch", "dl_decode"} /\ pc'[t] # pc[t]) =>
                UNCHANGED cstate /\ initialized'
        /\ (t \in Clients /\ pc[t] = "dl_fetch" /\ pc'[t] = "idle") =>
                ret'[t] = "DownloadError"
        /\ (t \in Clients /\ pc[t] = "dl_decode" /\ pc'[t] = "idle") =>
                ret'[t] = DeserializationError("download")]_vars

\* C4 witness: a refresh has failed at the decode on a populated Checker
C4_Witness ==
    /\ constructed = "ok"
    /\ ret["main"] = DeserializationError("download")
    /\ pc["main"] = "idle"
    /\ initialized
    /\ Size(blocklist) > 0

\* C5: a query that consulted both indexes read an allowlist and a
\* blocklist that were installed together.
C5_NoMixedSnapshot ==
    \A t \in Queriers :
        (pc[t] = "q_unlock" /\ local[t].obsB # -1) => local[t].obsA = local[t].obsB

\* C5 witness: a query holds the read lock, both checks done, while a
\* refresh waits to install its snapshot
C5_Witness ==
    \E t \in Queriers, u \in Threads :
        /\ pc[t] = "q_unlock"
        /\ local[t].obsB # -1
        /\ pc[u] = "dl_lock"


\* a step in which New returns a Checker, or a refresh (manual or
\* background) returns nil
ReturnsOk ==
    \/ constructed = "pending" /\ constructed' = "ok"
    \/ \E t \in Threads :
          constructed = "ok" /\ pc[t] = "ap_lock" /\ pc'[t] \in {"idle", "w_select"}

\* C6 as claimed: when New or a refresh returns successfully, every
\* configured custom domain, normalized, is stored in its index.
C6_CustomDomainsPresent ==
    [][ReturnsOk =>
        /\ \A d \in NormalizedSet(config.CustomBlocklist) : Contains(blocklist', d)
        /\ \A d \in NormalizedSet(config.CustomAllowlist) : Contains(allowlist', d)]_vars

\* C6 amended: when New or a refresh returns successfully, every configured
\* custom domain whose normalized form is not empty is stored in its index.
C6_NonEmptyCustomDomainsPresent ==
    [][ReturnsOk =>
        /\ \A d \in NormalizedSet(config.CustomBlocklist) \ {<<>>} : Contains(blocklist', d)
        /\ \A d \in NormalizedSet(config.CustomAllowlist) \ {<<>>} : Contains(allowlist', d)]_vars

\* C6 witness: a manual refresh has returned nil, the installed snapshot does
\* not list the custom domains, and they are in the indexes
C6_Witness ==
    /\ constructed = "ok"
    /\ pc["main"] = "idle"
    /\ ret["main"] = "nil"
    /\ blocklist.gen >= 1
    /\ version = blobS1.version
    /\ config.CustomBlocklist # <<>>
    /\ Contains(blocklist, d_xc)
    /\ Contains(allowlist, d_gc)

\* C7: once Close has returned on a Checker with auto-refresh, the worker
\* has terminated (so no background cycle runs or starts any more).
C7_ClosedWorkerTerminated ==
    (closed /\ config.AutoRefresh) => pc["bg"] = "w_exit"

\* C7 witness: Close has returned after the worker ran a refresh cycle
C7_Witness ==
    /\ closed
    /\ config.AutoRefresh
    /\ pc["bg"] = "w_exit"
    /\ blocklist.gen >= 1

\* C8: once a Close has returned, Close never has to wait, and every step of
\* a Close call leaves the Checker as it is and returns nil; a Close that
\* overlaps another changes nothing but the cancellation signal.
C8_CloseIdempotent ==
    /\ [](closed => WaitReturns(wg))
    /\ [][\A t \in Clients :
            /\ ((pc[t] = "idle" /\ pc'[t] = "cl_wait") \/ (pc[t] = "cl_wait" /\ pc'[t] = "idle")) =>
                  /\ UNCHANGED <<cstate, cancelFunc, wg, cache, mu>>
                  /\ closed => UNCHANGED ctxDone
            /\ (pc[t] = "cl_wait" /\ pc'[t] = "idle") => ret'[t] = "nil"]_vars

\* C8 witness: a Close call is in progress after another Close has returned
C8_Witness ==
    \E t \in Clients : closed /\ pc[t] = "cl_wait" /\ config.AutoRefresh

\* C9: under fair scheduling every Close call returns, whether or not the
\* ticker ever fires again; and a background download that is in flight once
\* the context is cancelled ends in an error, not in a snapshot.
C9_CloseReturns ==
    /\ \A t \in Clients : (pc[t] = "cl_wait") ~> (pc[t] = "idle")
    /\ [][(pc["bg"] = "dl_fetch" /\ ctxDone /\ pc'["bg"] # "dl_fetch") =>
            pc'["bg"] = "w_select"]_vars

\* C9 witness: Close waits while a background download is in flight
C9_Witness ==
    \E t \in Clients : pc[t] = "cl_wait" /\ pc["bg"] = "dl_fetch" /\ ctxDone

\* the cache file can be read and decodes
CacheDecodes == cache.kind # "nofile" /\ Deserialize(cache, CacheGen).err = ""

\* the Checker is populated from snapshot b: its metadata, and its domains
\* plus the configured custom ones
PopulatedFrom(b) ==
    /\ initialized
    /\ version = b.version
    /\ lastUpdated = b.createdAt
    /\ GetAll(blocklist) = Range(b.blocklist) \cup (NormalizedSet(config.CustomBlocklist) \ {<<>>})
    /\ GetAll(allowlist) = Range(b.allowlist) \cup (NormalizedSet(config.CustomAllowlist) \ {<<>>})

\* C10: New tries the cache first.  If the cached blob decodes, no download
\* is started, the cache file is not written, and New returns a Checker
\* populated from the cache; otherwise exactly one download is started, and
\* if it and its decoding succeed New returns a Checker populated from the
\* downloaded snapshot.
C10_CacheFirst ==
    [][/\ (pc["main"] = "new" /\ pc'["main"] # "new") =>
            IF CacheDecodes THEN nfetch' = 0 /\ initialized' /\ cache' = cache
            ELSE nfetch' = 1 /\ pc'["main"] = "dl_fetch" /\ UNCHANGED cstate
       /\ constructed = "pending" =>
            /\ nfetch' <= 1
            /\ pc["main"] # "new" => nfetch' = nfetch
            /\ nfetch' = 0 => cache' = cache
       /\ (constructed = "pending" /\ constructed' = "ok") =>
            /\ nfetch = 0 => PopulatedFrom(cache)'
            /\ nfetch = 1 => \E b \in ServerBlobs : b.kind = "ok" /\ PopulatedFrom(b)']_vars

\* C10 witness: New is about to return a Checker it populated by a download
C10_Witness ==
    /\ pc["main"] = "n_worker"
    /\ nfetch = 1
    /\ initialized
    /\ Size(blocklist) > 0

\* C11: when New has fallen back to a download (the cache could not be
\* loaded) and the download fails, or the downloaded bytes do not decode, New
\* returns no Checker and an InitializationError wrapping the DownloadError
\* or DeserializationError; the worker is not started, then or later.
C11_InitFailureWrapsCause ==
    /\ [][constructed = "pending" =>
            /\ (pc["main"] = "dl_fetch" /\ pc'["main"] \notin {"dl_fetch", "dl_decode"}) =>
                  /\ constructed' = "err"
                  /\ IsInitializationError(ret'["main"])
                  /\ Unwrap(ret'["main"]) = "DownloadError"
            /\ (/\ pc["main"] = "dl_decode"
                /\ Deserialize(local["main"].fileData, local["main"].fetchId).err # ""
                /\ pc'["main"] # "dl_decode") =>
                  /\ constructed' = "err"
                  /\ IsInitializationError(ret'["main"])
                  /\ Unwrap(ret'["main"]) = DeserializationError("download")]_vars
    /\ [](constructed = "err" =>
            /\ pc["bg"] = "w_none"
            /\ wg = 0
            /\ ~cancelFunc
            /\ ~initialized
            /\ \A t \in Clients : ~CanCall(t))
    /\ [][constructed = "err" => UNCHANGED vars]_vars

\* C11 witness: the cache file did not decode, the downloaded bytes did not
\* either, and New has returned the wrapped DeserializationError
C11_Witness ==
    /\ constructed = "err"
    /\ cache = blobBadGzip
    /\ config.AutoRefresh
    /\ Unwrap(ret["main"]) = DeserializationError("download")

\* C12 as claimed: New fails only after the cache and the fetch have both
\* failed, and the error it returns is an InitializationError.
C12_OnlyInitializationError ==
    [][(constructed = "pending" /\ constructed' = "err") =>
          /\ pc["main"] \in {"dl_fetch", "dl_decode"}
          /\ IsInitializationError(ret'["main"])]_vars

\* C12 amended: New fails either because the cache directory cannot be
\* created, and then it returns a CacheError without having tried the cache
\* or a fetch, or because the cache and the one fetch have both failed, and
\* then it returns an InitializationError; a Checker that failed to be
\* constructed never obtained a snapshot.
C12_FailsOnMkdirOrNoSnapshot ==
    /\ [][(constructed = "pending" /\ constructed' = "err") =>
            \/ /\ pc["main"] = "mkdir"
               /\ ret'["main"] = "CacheError"
               /\ nfetch = 0
            \/ /\ pc["main"] \in {"dl_fetch", "dl_decode"}
               /\ ~CacheDecodes
               /\ nfetch = 1
               /\ IsInitializationError(ret'["main"])]_vars
    /\ [](constructed = "err" => ~initialized /\ Size(blocklist) = 0)

\* C12 witness: there was no cache file, the fetch failed, and New has
\* returned an InitializationError
C12_Witness ==
    /\ constructed = "err"
    /\ cache = NoFile
    /\ nfetch = 1
    /\ IsInitializationError(ret["main"])
    /\ Unwrap(ret["main"]) = "DownloadError"

\* the domains the callers add with AddAllowlist, normalized; no snapshot and
\* no configuration lists any of them in the allowlist, so one of them is
\* stored in the allowlist index only once AddAllowlist has added it
AllowlistAdded == UNION {NormalizedSet(ds) : ds \in AllowArgs} \ {<<>>}

\* C13 as claimed: from a state in which AddAllowlist has added d, no step
\* (AddDomains, a manual or background refresh, ...) leads to a state in
\* which d or a subdomain of d is reported disposable.
C13_AllowlistedNeverDisposable ==
    [][\A d \in AllowlistAdded :
          Contains(allowlist, d) =>
              \A x \in {d} \cup {Sub(P, d) : P \in Prefixes} :
                  ~IsDisposableIn(allowlist', blocklist', x)]_vars

\* C14: when AddDomains(ds) returns, with no refresh having run for it, every
\* d of ds that normalizes to a non-empty domain is stored in the blocklist
\* in its trimmed, lower-cased form, and d and the address u@d are reported
\* disposable unless the allowlist matches; the arguments that normalize to
\* the empty string add nothing, so the blocklist grows by exactly the new
\* non-empty domains and the allowlist count does not change.
C14_AddDomainsImmediate ==
    [][\A t \in Mutators, ds \in AddArgs :
          (pc' = pc /\ AddDomains(t, ds)) =>
              /\ UNCHANGED <<nfetch, version, lastUpdated, cache>>
              /\ GetAll(blocklist') = GetAll(blocklist) \cup (NormalizedSet(ds) \ {<<>>})
              /\ Size(blocklist') =
                    Size(blocklist) + Cardinality((NormalizedSet(ds) \ {<<>>}) \ GetAll(blocklist))
              /\ Size(allowlist') = Size(allowlist)
              /\ \A d \in {a \in Range(ds) : IsDomainArg(a)} :
                    /\ Contains(blocklist', ToLower(TrimSpace(d)))
                    /\ \A x \in {d, <<"u", "@">> \o d} :
                          IsDisposableIn(allowlist', blocklist', x)
                              = ~ContainsHierarchical(allowlist', ToLower(TrimSpace(d)))]_vars

\* C14 witness: the installed snapshot does not block "tempmail.com", the
\* padded upper-case form of it was added, and an address at it is reported
\* disposable
C14_Witness ==
    /\ pc["main"] = "idle"
    /\ version = blobS2.version
    /\ d_tc \notin Range(blobS2.blocklist)
    /\ Contains(blocklist, d_tc)
    /\ Size(blocklist) = Cardinality(GetAll(blocklist))
    /\ IsDisposableIn(allowlist, blocklist, e_uTC)

\* a string all of whose bytes are valid UTF-8
ValidUTF8(s) == \A i \in 1..Len(s) : s[i] \notin InvalidBytes

\* the round trip restored the sets B and A: no error, the domains and sizes
\* of both tries, Version "1.0" and DomainCount = |B|
RestoredExactly(r) ==
    /\ r.out.err = ""
    /\ GetAll(r.out.blocklist) = r.B
    /\ GetAll(r.out.allowlist) = r.A
    /\ Size(r.out.blocklist) = Cardinality(r.B)
    /\ Size(r.out.allowlist) = Cardinality(r.A)
    /\ r.out.dataFile.Version = "1.0"
    /\ r.out.dataFile.DomainCount = Cardinality(r.B)

\* C15 as claimed: for tries built from sets B and A of non-empty strings,
\* Deserialize(Serialize(blocklist, allowlist)) succeeds and restores B and A
\* exactly, with their sizes, Version "1.0" and DomainCount = |B|.
C15_RoundTrip ==
    (restored.out.err # "none" /\ <<>> \notin restored.B \cup restored.A)
        => RestoredExactly(restored)

\* C15 amended: the same, for sets B and A of non-empty strings that are
\* valid UTF-8.
C15_RoundTripValidUTF8 ==
    (/\ restored.out.err # "none"
     /\ <<>> \notin restored.B \cup restored.A
     /\ \A s \in restored.B \cup restored.A : ValidUTF8(s))
        => RestoredExactly(restored)

\* C15 witness: a round trip of three blocked domains and one allowed domain
C15_Witness ==
    /\ restored.out.err = ""
    /\ restored.B = {d_tc, d_mtc, s_c}
    /\ restored.A = {d_gc}
    /\ restored.out.dataFile.DomainCount = 3
    /\ Contains(restored.out.blocklist, d_mtc)

\* Size, the terminal nodes and GetAll of trie k all stand for the set S
SizeAndGetAllAre(k, S) ==
    /\ Size(tries[k]) = Cardinality(S)
    /\ Cardinality(tries[k].ends) = Cardinality(S)
    /\ GetAll(tries[k]) = S

\* C16 as claimed: after any sequence of Insert and Clear, Size equals the
\* number of distinct non-empty strings inserted since the last Clear and the
\* number of terminal nodes, and GetAll is exactly that set; an Insert of a
\* string already inserted changes neither Size nor GetAll.
C16_SizeCountsInserted ==
    /\ [](\A k \in TrieNames : SizeAndGetAllAre(k, inserted[k] \ {<<>>}))
    /\ [][\A k \in TrieNames :
            (inserted'[k] = inserted[k] /\ inserted[k] # {}) =>
                /\ Size(tries'[k]) = Size(tries[k])
                /\ GetAll(tries'[k]) = GetAll(tries[k])]_vars

\* C16 amended: the same, as long as the strings inserted since the last
\* Clear are valid UTF-8.
C16_SizeCountsInsertedValidUTF8 ==
    /\ [](\A k \in TrieNames :
            (\A s \in inserted[k] : ValidUTF8(s)) =>
                SizeAndGetAllAre(k, inserted[k] \ {<<>>}))
    /\ [][\A k \in TrieNames :
            (inserted'[k] = inserted[k] /\ inserted[k] # {}) =>
                /\ Size(tries'[k]) = Size(tries[k])
                /\ GetAll(tries'[k]) = GetAll(tries[k])]_vars

\* C16 witness: three domains and the empty string have been inserted, and
\* the trie counts three
C16_Witness ==
    /\ inserted["blocklist"] = {<<>>, d_tc, d_mtc, s_c}
    /\ Size(tries["blocklist"]) = 3
    /\ restored.B = {d_tc}

\* the strings the tries are probed with: subdomains, parent domains and
\* other strings besides the inserted ones
ProbeStrings == ProbeDomains \cup {<<>>, s_c, s_ff, s_fe, s_ufffd}

\* C17 as claimed: Contains(d) is true exactly when d is non-empty and d
\* itself has been inserted since the last Clear (not when only a subdomain,
\* a parent domain or another string has been); Insert("") changes nothing;
\* Contains("") and ContainsHierarchical("") are false.
C17_ContainsExact ==
    /\ [](\A k \in TrieNames : \A d \in ProbeStrings :
            Contains(tries[k], d) <=> (d # <<>> /\ d \in inserted[k]))
    /\ [](\A k \in TrieNames :
            ~Contains(tries[k], <<>>) /\ ~ContainsHierarchical(tries[k], <<>>))
    /\ [][\A k \in TrieNames :
            (inserted'[k] = inserted[k] \cup {<<>>}) => tries'[k] = tries[k]]_vars

\* C17 amended: the same, for d valid UTF-8 and as long as the strings
\* inserted since the last Clear are valid UTF-8.
C17_ContainsExactValidUTF8 ==
    /\ [](\A k \in TrieNames :
            (\A s \in inserted[k] : ValidUTF8(s)) =>
                \A d \in {p \in ProbeStrings : ValidUTF8(p)} :
                    Contains(tries[k], d) <=> (d # <<>> /\ d \in inserted[k]))
    /\ [](\A k \in TrieNames :
            ~Contains(tries[k], <<>>) /\ ~ContainsHierarchical(tries[k], <<>>))
    /\ [][\A k \in TrieNames :
            (inserted'[k] = inserted[k] \cup {<<>>}) => tries'[k] = tries[k]]_vars

\* C17 witness: "mail.tempmail.com" and the empty string have been inserted;
\* the trie contains it and neither its parent domains nor "nottempmail.com"
C17_Witness ==
    /\ inserted["blocklist"] = {<<>>, d_mtc}
    /\ Contains(tries["blocklist"], d_mtc)
    /\ ~Contains(tries["blocklist"], d_tc)
    /\ ~Contains(tries["blocklist"], s_c)
    /\ ~Contains(tries["blocklist"], d_ntc)

\* C18: when Clear returns, Size is 0, GetAll is empty and Contains and
\* ContainsHierarchical are false for every string; the trie is then in the
\* state of a newly created one, so each Insert on it gives what it gives on
\* a new trie.
C18_ClearResets ==
    /\ [][\A k \in TrieNames :
            (inserted[k] # {} /\ inserted'[k] = {}) =>
                /\ Size(tries'[k]) = 0
                /\ GetAll(tries'[k]) = {}
                /\ \A d \in ProbeStrings :
                      ~Contains(tries'[k], d) /\ ~ContainsHierarchical(tries'[k], d)
                /\ \A s \in InsertArgs[k] :
                      Insert(tries'[k], s) = Insert(New(tries[k].gen), s)]_vars
    /\ [](\A k \in TrieNames : inserted[k] = {} => tries[k] = New(OwnGen))

\* C18 witness: a trie that held two domains when it was serialized has been
\* cleared since
C18_Witness ==
    /\ restored.B = {d_tc, d_mtc}
    /\ Size(restored.out.blocklist) = 2
    /\ inserted["blocklist"] = {}
    /\ Size(tries["blocklist"]) = 0

\* inputs without a domain: "", " ", "@", "u@", " u@ "
EmptyInputs == {e_empty, e_blank, e_at, e_u, <<" ", "u", "@", " ">>}

\* C19: in every state of the Checker, whatever its indexes hold, an input
\* that is empty after trimming or has nothing after its last '@' is not
\* disposable; a call with such an input returns false at once, without
\* waiting for the lock and without changing anything, and a query goes on
\* to the indexes only with a non-empty domain.
C19_EmptyInputFalse ==
    /\ [](\A x \in EmptyInputs : ~IsDisposableIn(allowlist, blocklist, x))
    /\ [][\A t \in Queriers :
            /\ (pc[t] = "idle" /\ pc'[t] = "idle" /\ ret'[t] # ret[t]) =>
                  /\ ret'[t] = "false"
                  /\ UNCHANGED <<cstate, mu, cache, nfetch, local>>
            /\ (pc[t] = "idle" /\ pc'[t] = "q_allow") => local'[t].domain # <<>>]_vars
    /\ [](\A t \in Queriers :
            (mu.w # "none" /\ CanCall(t)) =>
                \A x \in EmptyInputs \cap QueryInputs : ENABLED IsDisposableCall(t, x))

\* C19 witness: the blocklist stores the string "u@", a refresh is about to
\* install a snapshot, and the querier has been answered false
C19_Witness ==
    /\ Contains(blocklist, e_u)
    /\ pc["main"] = "dl_lock"
    /\ pc["c2"] = "idle"
    /\ ret["c2"] = "false"

\* C20: a Close by one caller leaves a Refresh that another caller has in
\* flight as it is; the download of that Refresh can still succeed once the
\* worker's context is cancelled and Close has returned; and the swap of a
\* Refresh that gets that far installs its indexes and metadata also after
\* Close has returned.
C20_CloseLeavesRefreshAlone ==
    /\ [][\A t \in Clients :
            ((pc[t] = "idle" /\ pc'[t] = "cl_wait") \/ (pc[t] = "cl_wait" /\ pc'[t] = "idle")) =>
                \A u \in Clients \ {t} :
                    pc'[u] = pc[u] /\ local'[u] = local[u] /\ ret'[u] = ret[u]]_vars
    /\ [](\A u \in Clients :
            (constructed = "ok" /\ pc[u] = "dl_fetch") =>
                ENABLED (\E b \in ServerBlobs : FetchOk(u, b)))
    /\ [][\A u \in Clients :
            (closed /\ pc[u] = "dl_swap2" /\ pc'[u] # "dl_swap2") =>
                /\ blocklist' = local[u].nb
                /\ allowlist' = local[u].na
                /\ version' = local[u].df.Version
                /\ lastUpdated' = local[u].df.CreatedAt]_vars

\* C20 witness: Close has returned and cancelled the worker's context, and a
\* manual Refresh has just installed the snapshot it downloaded
C20_Witness ==
    /\ closed
    /\ ctxDone
    /\ pc["main"] = "ap_lock"
    /\ constructed = "ok"
    /\ blocklist.gen = nfetch
    /\ version = blobS2.version

\* C21: a background cycle that fails at the fetch or at the decode leaves
\* the worker in its select, with the WaitGroup and the Checker's data as
\* they were; in its select the worker can always take another tick (up to
\* the bound on downloads); and the worker returns only from its select and
\* only once its context has been cancelled.
C21_FailedCycleKeepsWorker ==
    /\ [][/\ (pc["bg"] = "dl_fetch" /\ pc'["bg"] \notin {"dl_fetch", "dl_decode"}) =>
                pc'["bg"] = "w_select" /\ wg' = wg /\ UNCHANGED cstate
          /\ (/\ pc["bg"] = "dl_decode"
              /\ Deserialize(local["bg"].fileData, local["bg"].fetchId).err # ""
              /\ pc'["bg"] # "dl_decode") =>
                pc'["bg"] = "w_select" /\ wg' = wg /\ UNCHANGED cstate
          /\ (pc["bg"] # "w_exit" /\ pc'["bg"] = "w_exit") =>
                pc["bg"] = "w_select" /\ ctxDone]_vars
    /\ []((pc["bg"] = "w_select" /\ nfetch < MaxFetches) => ENABLED WorkerTick)

\* C21 witness: the first background cycle has failed, nothing else has
\* refreshed or closed the Checker, and the worker is in its second cycle
C21_Witness ==
    /\ pc["bg"] = "dl_fetch"
    /\ local["bg"].fetchId = 2
    /\ blocklist.gen = CacheGen
    /\ ret["main"] = "nil"
    /\ ~ctxDone

\* C22: when the write of the cache file fails (the file does not hold the
\* decoded bytes afterwards), the call goes on to the swap with its decoded
\* indexes and returns no error; the swap of a call whose bytes are not in
\* the cache file installs its indexes, version and timestamp; and every call
\* that gets past the swap ends without an error: New returns the Checker,
\* Refresh returns nil, the worker goes back to its select.
C22_CacheWriteFailureIgnored ==
    [][\A t \in Threads :
          /\ (pc[t] = "dl_write" /\ pc'[t] # "dl_write" /\ cache' # local[t].fileData) =>
                /\ pc'[t] = "dl_lock"
                /\ local'[t] = local[t]
                /\ ret' = ret
                /\ constructed' = constructed
          /\ (pc[t] = "dl_swap2" /\ pc'[t] # "dl_swap2" /\ cache # local[t].fileData) =>
                /\ pc'[t] = "ap_lock"
                /\ blocklist' = local[t].nb
                /\ allowlist' = local[t].na
                /\ initialized'
                /\ version' = local[t].df.Version
                /\ lastUpdated' = local[t].df.CreatedAt
          /\ (pc[t] = "ap_lock" /\ pc'[t] # "ap_lock") =>
                /\ constructed' # "err"
                /\ t = "bg" => pc'[t] = "w_select"
                /\ (t # "bg" /\ constructed = "ok") => pc'[t] = "idle" /\ ret'[t] = "nil"
                /\ (t # "bg" /\ constructed = "pending") => pc'[t] = "n_worker"]_vars

\* C22 witness: the only download so far installed snapshot 2.0 and Refresh
\* or New returned without error, while the cache file does not hold it
C22_Witness ==
    /\ pc["main"] = "idle"
    /\ constructed = "ok"
    /\ ret["main"] = "nil"
    /\ nfetch = 1
    /\ blocklist.gen = 1
    /\ version = blobS2.version
    /\ cache # blobS2


\* C23: bytes that are not a gzip stream, or whose payload is not a
\* gob-encoded DataFile, make Deserialize return an error, no tries and no
\* DataFile; when they are the cache file, loadFromCache hands init a
\* DeserializationError with Source "cache", and when they were fetched,
\* downloadAndLoad ends in a DeserializationError with Source "download"
\* (wrapped by init during New); neither changes the Checker's fields.
C23_DecodeFailureReported ==
    [][/\ (/\ pc["main"] = "new" /\ pc'["main"] # "new"
           /\ cache.kind \in {"badgzip", "badgob"}) =>
              /\ Deserialize(cache, CacheGen).err # ""
              /\ Deserialize(cache, CacheGen).blocklist = NilTrie
              /\ Deserialize(cache, CacheGen).allowlist = NilTrie
              /\ Deserialize(cache, CacheGen).dataFile = NilDataFile
              /\ ret'["main"] = "DeserializationError{cache}"
              /\ UNCHANGED cstate
       /\ \A t \in Threads :
            (/\ pc[t] = "dl_decode" /\ pc'[t] # "dl_decode"
             /\ local[t].fileData.kind \in {"badgzip", "badgob"}) =>
              /\ Deserialize(local[t].fileData, local[t].fetchId).err # ""
              /\ Deserialize(local[t].fileData, local[t].fetchId).blocklist = NilTrie
              /\ Deserialize(local[t].fileData, local[t].fetchId).allowlist = NilTrie
              /\ Deserialize(local[t].fileData, local[t].fetchId).dataFile = NilDataFile
              /\ local'[t].nb = NilTrie
              /\ local'[t].na = NilTrie
              /\ UNCHANGED cstate
              /\ (t \in Clients /\ constructed = "ok") =>
                    ret'[t] = "DeserializationError{download}"
              /\ (t \in Clients /\ constructed = "pending") =>
                    /\ IsInitializationError(ret'[t])
                    /\ Unwrap(ret'[t]) = "DeserializationError{download}"]_vars

\* C23 witness: the cache file did not decode, which loadFromCache reported
\* with Source "cache", and the bytes fetched instead will not decode either
C23_Witness ==
    /\ pc["main"] = "dl_decode"
    /\ cache = blobBadGzip
    /\ ret["main"] = "DeserializationError{cache}"
    /\ local["main"].fileData = blobBadGob


(***************************************************************************)
(* Package-level functions on the default Checker (disposable.go)          *)
(***************************************************************************)
\* the Checker a successful call (k-th New, or a refresh) leaves: the tries
\* decoded from snapshot b; DefaultConfig has no custom lists and no worker
CheckerFrom(b, k) ==
    LET d == Deserialize(b, CacheGen)
    IN  [id |-> k, blocklist |-> d.blocklist, allowlist |-> d.allowlist,
         lastUpdated |-> d.dataFile.CreatedAt, version |-> d.dataFile.Version]

\* what the k-th call of New() may return: a Checker and nil, or nil and the
\* CacheError of MkdirAll or the InitializationError of init
NewResults(k) ==
    {[checker |-> CheckerFrom(b, k), err |-> "nil"] : b \in {blobS1, blobS2}}
    \cup {[checker |-> NilChecker, err |-> e] :
            e \in {"CacheError", InitializationError("DownloadError"),
                   InitializationError(DeserializationError("download"))}}

\* what Checker.Refresh may do to Checker c: install a snapshot and return
\* nil, or leave c alone and return the error of downloadAndLoad
RefreshResults(c) ==
    {[checker |-> CheckerFrom(b, c.id), err |-> "nil"] : b \in {blobS1, blobS2}}
    \cup {[checker |-> c, err |-> e] :
            e \in {"DownloadError", DeserializationError("download")}}

\* Statistics{}
ZeroStatistics ==
    [BlocklistCount |-> 0, AllowlistCount |-> 0, LastUpdated |-> 0, Version |-> ""]

\* the package-level functions, and the arguments they are called with
FacadeFns ==
    {"IsDisposable", "CheckEmail", "Refresh", "AddDomains", "AddAllowlist",
     "GetBlocklist", "GetAllowlist", "Stats", "IsReady", "InitError"}

FacadeArgs(fn) ==
    CASE fn \in {"IsDisposable", "CheckEmail"} ->
            {d_mtc, e_uTC, e_uug, e_u, e_blank, d_dotless}
      [] fn = "AddDomains" -> AddArgs \cup {<<d_ic>>}
      [] fn = "AddAllowlist" -> AllowArgs
      [] OTHER -> {<<>>}

\* variant: CheckEmail hides the initialization error
FacadeOnError_swallows(fn, err) ==
    CASE fn = "IsDisposable" -> [val |-> FALSE, err |-> "-"]
      [] fn = "CheckEmail" -> [val |-> FALSE, err |-> "nil"]
      [] fn = "Refresh" -> [val |-> "-", err |-> err]
      [] fn \in {"AddDomains", "AddAllowlist"} -> [val |-> "-", err |-> "-"]
      [] fn \in {"GetBlocklist", "GetAllowlist"} -> [val |-> "nil", err |-> "-"]
      [] fn = "Stats" -> [val |-> ZeroStatistics, err |-> "-"]
      [] fn = "IsReady" -> [val |-> FALSE, err |-> "-"]
      [] OTHER -> [val |-> "-", err |-> err]

\* what each function returns when getDefaultChecker returned the error err
\* ("-" stands for a result the function does not have)
FacadeOnError(fn, err) ==
    CASE fn = "IsDisposable" -> [val |-> FALSE, err |-> "-"]
      [] fn = "CheckEmail" -> [val |-> FALSE, err |-> err]
      [] fn = "Refresh" -> [val |-> "-", err |-> err]
      [] fn \in {"AddDomains", "AddAllowlist"} -> [val |-> "-", err |-> "-"]
      [] fn \in {"GetBlocklist", "GetAllowlist"} -> [val |-> "nil", err |-> "-"]
      [] fn = "Stats" -> [val |-> ZeroStatistics, err |-> "-"]
      [] fn = "IsReady" -> [val |-> FALSE, err |-> "-"]
      [] OTHER -> [val |-> "-", err |-> err]

\* what each function that leaves the Checker as it is returns when
\* getDefaultChecker returned the Checker c
FacadeOnChecker(fn, arg, c) ==
    CASE fn = "IsDisposable" ->
            [val |-> IsDisposableIn(c.allowlist, c.blocklist, arg), err |-> "-"]
      [] fn = "CheckEmail" ->
            [val |-> IsDisposableIn(c.allowlist, c.blocklist, arg), err |-> "nil"]
      [] fn = "GetBlocklist" -> [val |-> GetAll(c.blocklist), err |-> "-"]
      [] fn = "GetAllowlist" -> [val |-> GetAll(c.allowlist), err |-> "-"]
      [] fn = "Stats" ->
            [val |-> Stats(c.blocklist, c.allowlist, c.lastUpdated, c.version),
             err |-> "-"]
      [] fn = "IsReady" -> [val |-> TRUE, err |-> "-"]
      [] OTHER -> [val |-> "-", err |-> "nil"]

\* a goroutine calls a package-level function, which calls getDefaultChecker
FacadeCall(p, fn, arg) ==
    /\ fcall[p].pc = "idle"
    /\ fcall' = [fcall EXCEPT ![p] = [pc |-> "once", fn |-> fn, arg |-> arg,
                                      returned |-> FALSE, out |-> NoOut]]
    /\ UNCHANGED <<checkerVars, trieVars, upd, pkg>>

\* defaultCheckerOnce.Do, fast path: done is read
OnceCheck(p) ==
    /\ fcall[p].pc = "once"
    /\ fcall' = [fcall EXCEPT ![p].pc = IF pkg.once.done THEN "loaded" ELSE "lock"]
    /\ UNCHANGED <<checkerVars, trieVars, upd, pkg>>

\* defaultCheckerOnce.Do, slow path: the mutex of the Once is taken
OnceLock(p) ==
    /\ fcall[p].pc = "lock"
    /\ pkg.once.m = "none"
    /\ pkg' = [pkg EXCEPT !.once.m = p]
    /\ fcall' = [fcall EXCEPT ![p].pc = "slow"]
    /\ UNCHANGED <<checkerVars, trieVars, upd>>

\* under the mutex: done is read again; New is entered only if it is unset
OnceSlow(p) ==
    /\ fcall[p].pc = "slow"
    /\ IF pkg.once.done
       THEN /\ pkg' = [pkg EXCEPT !.once.m = "none"]
            /\ fcall' = [fcall EXCEPT ![p].pc = "loaded"]
       ELSE /\ pkg' = [pkg EXCEPT !.news = @ + 1]
            /\ fcall' = [fcall EXCEPT ![p].pc = "in_new"]
    /\ UNCHANGED <<checkerVars, trieVars, upd>>

\* defaultChecker, defaultCheckerErr = New()
OnceNewReturns(p) ==
    /\ fcall[p].pc = "in_new"
    /\ \E r \in NewResults(pkg.news) :
            pkg' = [pkg EXCEPT !.defaultChecker = r.checker,
                               !.defaultCheckerErr = r.err]
    /\ fcall' = [fcall EXCEPT ![p].pc = "ran"]
    /\ UNCHANGED <<checkerVars, trieVars, upd>>

\* variant: the Once is marked done only when New succeeded
OnceDone_retries(err) == err = "nil"

\* whether the Once is marked done after the function returned
OnceDone(err) == TRUE

\* the deferred done.Store(1) and Unlock of the Once
OnceFinish(p) ==
    /\ fcall[p].pc = "ran"
    /\ pkg' = [pkg EXCEPT !.once = [done |-> OnceDone(pkg.defaultCheckerErr),
                                    m |-> "none"]]
    /\ fcall' = [fcall EXCEPT ![p].pc = "loaded"]
    /\ UNCHANGED <<checkerVars, trieVars, upd>>

\* getDefaultChecker returns (defaultChecker, defaultCheckerErr), and the
\* function returns on an error; got is what getDefaultChecker returned,
\* the Checker by its id, 0 for nil
FacadeFail(p) ==
    /\ fcall[p].pc = "loaded"
    /\ pkg.defaultCheckerErr # "nil"
    /\ fcall' = [fcall EXCEPT ![p].pc = "idle", ![p].returned = TRUE,
                              ![p].out = [got |-> <<0, pkg.defaultCheckerErr>>,
                                          res |-> FacadeOnError(fcall[p].fn,
                                                                pkg.defaultCheckerErr)]]
    /\ UNCHANGED <<checkerVars, trieVars, upd, pkg>>

\* getDefaultChecker returns (defaultChecker, nil), and the function calls
\* the method of the Checker
FacadeDelegate(p) ==
    /\ fcall[p].pc = "loaded"
    /\ pkg.defaultCheckerErr = "nil"
    /\ LET c == pkg.defaultChecker
           fn == fcall[p].fn
           arg == fcall[p].arg
           got == <<c.id, "nil">>
       IN  CASE fn = "AddDomains" ->
                    /\ pkg' = [pkg EXCEPT !.defaultChecker.blocklist =
                                              InsertAll(@, NormalizeAll(arg))]
                    /\ fcall' = [fcall EXCEPT ![p].pc = "idle", ![p].returned = TRUE,
                                    ![p].out = [got |-> got,
                                                res |-> [val |-> "-", err |-> "-"]]]
             [] fn = "AddAllowlist" ->
                    /\ pkg' = [pkg EXCEPT !.defaultChecker.allowlist =
                                              InsertAll(@, NormalizeAll(arg))]
                    /\ fcall' = [fcall EXCEPT ![p].pc = "idle", ![p].returned = TRUE,
                                    ![p].out = [got |-> got,
                                                res |-> [val |-> "-", err |-> "-"]]]
             [] fn = "Refresh" ->
                    \E r \in RefreshResults(c) :
                        /\ pkg' = [pkg EXCEPT !.defaultChecker = r.checker]
                        /\ fcall' = [fcall EXCEPT ![p].pc = "idle", ![p].returned = TRUE,
                                        ![p].out = [got |-> got,
                                                    res |-> [val |-> "-",
                                                             err |-> r.err]]]
             [] OTHER ->
                    /\ fcall' = [fcall EXCEPT ![p].pc = "idle", ![p].returned = TRUE,
                                    ![p].out = [got |-> got,
                                                res |-> FacadeOnChecker(fn, arg, c)]]
                    /\ UNCHANGED pkg
    /\ UNCHANGED <<checkerVars, trieVars, upd>>

FacadeInit ==
    /\ Init
    /\ ~config.AutoRefresh
    /\ cache = NoFile

FacadeNext ==
    \/ \E p \in Callers : \E fn \in FacadeFns : \E arg \in FacadeArgs(fn) :
            FacadeCall(p, fn, arg)
    \/ \E p \in Callers : OnceCheck(p)
    \/ \E p \in Callers : OnceLock(p)
    \/ \E p \in Callers : OnceSlow(p)
    \/ \E p \in Callers : OnceNewReturns(p)
    \/ \E p \in Callers : OnceFinish(p)
    \/ \E p \in Callers : FacadeFail(p)
    \/ \E p \in Callers : FacadeDelegate(p)

FacadeSpec == FacadeInit /\ [][FacadeNext]_vars


\* C24: under every interleaving of package-level calls New is entered at
\* most once, and exactly once before any of the calls returns; all calls
\* get the same (Checker, error) pair from getDefaultChecker; and once the
\* Once is done, or the first New has failed, New is not entered again and
\* the Checker and the error stay the ones the first New returned.
C24_DefaultCheckerOnce ==
    /\ [](pkg.news <= 1)
    /\ [](Cardinality({p \in Callers : fcall[p].pc \in {"in_new", "ran"}}) <= 1)
    /\ [](\A p \in Callers : fcall[p].returned => pkg.news = 1 /\ pkg.once.done)
    /\ [](\A p, q \in Callers :
            (fcall[p].returned /\ fcall[q].returned) =>
                fcall[p].out.got = fcall[q].out.got)
    /\ [][(pkg.once.done \/ pkg.defaultCheckerErr # "nil") =>
            /\ pkg'.news = pkg.news
            /\ pkg'.defaultCheckerErr = pkg.defaultCheckerErr
            /\ pkg'.defaultChecker.id = pkg.defaultChecker.id
            /\ \A p \in Callers : fcall'[p].pc # "in_new"]_vars

\* C24 witness: one goroutine's call has returned after New failed, while
\* the other, which had found the Once not done, holds its mutex
C24_Witness ==
    /\ fcall["g1"].returned
    /\ fcall["g2"].pc = "slow"
    /\ pkg.once.done
    /\ pkg.defaultCheckerErr # "nil"
    /\ pkg.news = 1

\* C25: a package-level call that finds the initialization failed changes
\* nothing and returns false (IsDisposable), false and the initialization
\* error (CheckEmail), nothing (AddDomains, AddAllowlist), nil (GetBlocklist,
\* GetAllowlist), the zero Statistics (Stats), false (IsReady), the error
\* (Refresh); and CheckEmail(x) on an initialized default Checker returns
\* what IsDisposable(x) of that Checker returns, and nil.
C25_FacadeDegrades ==
    [][\A p \in Callers :
          (fcall[p].pc = "loaded" /\ fcall'[p].pc = "idle") =>
              LET fn == fcall[p].fn
                  arg == fcall[p].arg
                  err == pkg.defaultCheckerErr
                  res == fcall'[p].out.res
              IN  IF err # "nil"
                  THEN /\ pkg' = pkg
                       /\ pkg.defaultChecker = NilChecker
                       /\ fn = "IsDisposable" => res.val = FALSE
                       /\ fn = "CheckEmail" => res.val = FALSE /\ res.err = err
                       /\ fn \in {"GetBlocklist", "GetAllowlist"} => res.val = "nil"
                       /\ fn = "Stats" => res.val = ZeroStatistics
                       /\ fn = "IsReady" => res.val = FALSE
                       /\ fn = "Refresh" => res.err = err
                  ELSE fn = "CheckEmail" =>
                          /\ res.err = "nil"
                          /\ res.val = IsDisposableIn(pkg.defaultChecker.allowlist,
                                                      pkg.defaultChecker.blocklist, arg)]_vars

\* C25 witness: CheckEmail has returned false and the CacheError New failed
\* with, and before it AddDomains had been called
C25_Witness ==
    /\ fcall["g1"].fn = "CheckEmail"
    /\ fcall["g1"].returned
    /\ fcall["g1"].out.res = [val |-> FALSE, err |-> "CacheError"]
    /\ fcall["g2"].fn = "AddDomains"
    /\ fcall["g2"].returned


\* strings.ToUpper, and the upper-casing of the ASCII letters only
ToUpperChar(ch) ==
    CASE ch = "t" -> "T"
      [] ch = "c" -> "C"
      [] ch = "g" -> "G"
      [] ch = "x" -> "X"
      [] ch = "m" -> "M"
      [] ch = "u" -> "U"
      [] ch = "i" -> "I"
      [] ch = "u0131" -> "I"
      [] ch \in InvalidBytes -> RuneError
      [] OTHER -> ch
ToUpper(s) == [i \in 1..Len(s) |-> ToUpperChar(s[i])]
ToUpperASCII(s) ==
    [i \in 1..Len(s) |-> IF s[i] \in {"t", "c", "g", "x", "m", "u", "i"}
                         THEN ToUpperChar(s[i]) ELSE s[i]]

\* x padded with blanks on both sides
Padded(x) == <<" ">> \o x \o <<" ">>

\* ExtractDomain(x) is the trimmed lower-cased x when that has no '@', and
\* otherwise what follows its last '@'
ExtractsDomainOf(x) ==
    LET e == ToLower(TrimSpace(x))
        r == ExtractDomain(x)
    IN  IF "@" \in Range(e)
        THEN /\ "@" \notin Range(r)
             /\ \E k \in 1..Len(e) : e[k] = "@" /\ r = SubSeq(e, k + 1, Len(e))
        ELSE r = e

\* a call of IsDisposable or CheckEmail on the initialized default Checker
\* returns, for its argument, what the Checker answers for each of vs
AnswersAlike(p, vs) ==
    (/\ fcall[p].pc = "loaded" /\ fcall'[p].pc = "idle"
     /\ fcall[p].fn \in {"IsDisposable", "CheckEmail"}
     /\ pkg.defaultCheckerErr = "nil") =>
        /\ ExtractsDomainOf(fcall[p].arg)
        /\ \A v \in vs :
              /\ ExtractsDomainOf(v)
              /\ fcall'[p].out.res.val =
                    IsDisposableIn(pkg.defaultChecker.allowlist,
                                   pkg.defaultChecker.blocklist, v)

\* C26 as claimed: ExtractDomain trims, lower-cases and takes what follows
\* the last '@', and IsDisposable answers an input as it answers the
\* upper-cased and the padded input.
C26_CaseAndPaddingInvariant ==
    [][\A p \in Callers :
          AnswersAlike(p, {ToUpper(fcall[p].arg), Padded(fcall[p].arg),
                           Padded(ToUpper(fcall[p].arg))})]_vars

\* C26: ExtractDomain trims, lower-cases and takes what follows the last
\* '@', and IsDisposable answers an input as it answers the padded input and
\* the input with its ASCII letters upper-cased.
C26_ASCIICaseAndPaddingInvariant ==
    [][\A p \in Callers :
          AnswersAlike(p, {ToUpperASCII(fcall[p].arg), Padded(fcall[p].arg),
                           Padded(ToUpperASCII(fcall[p].arg))})]_vars

\* C26 witness: "i.c" is blocked and IsDisposable("ı.c") returned false
C26_Witness ==
    /\ fcall["g1"].fn = "IsDisposable"
    /\ fcall["g1"].arg = d_dotless
    /\ fcall["g1"].returned
    /\ fcall["g1"].out.res.val = FALSE
    /\ pkg.defaultCheckerErr = "nil"
    /\ Contains(pkg.defaultChecker.blocklist, d_ic)
    /\ fcall["g2"].fn = "CheckEmail"
    /\ fcall["g2"].arg = e_uTC
    /\ fcall["g2"].returned
    /\ fcall["g2"].out.res.val = TRUE


\* the domains a runtime addition or the configuration may add to an index
ExtraBlocked == NormalizedSet(config.CustomBlocklist) \cup UNION {NormalizedSet(ds) : ds \in AddArgs}
ExtraAllowed == NormalizedSet(config.CustomAllowlist) \cup UNION {NormalizedSet(ds) : ds \in AllowArgs}

\* C27: the Statistics a call of Stats builds holds the sizes of the two
\* indexes installed at that moment and the version and timestamp the
\* Checker holds, and these belong together: both indexes come from one
\* decoding, of a snapshot with that version and timestamp, whose domains
\* they contain, with nothing else but configured and added domains.
C27_StatsConsistent ==
    [][\A t \in Clients :
          (pc[t] = "idle" /\ pc'[t] = "st_unlock") =>
              LET s == local'[t].stats
              IN  /\ s.BlocklistCount = Size(blocklist)
                  /\ s.AllowlistCount = Size(allowlist)
                  /\ s.BlocklistCount = Cardinality(GetAll(blocklist))
                  /\ s.AllowlistCount = Cardinality(GetAll(allowlist))
                  /\ s.Version = version
                  /\ s.LastUpdated = lastUpdated
                  /\ blocklist.gen = allowlist.gen
                  /\ \E b \in {x \in ServerBlobs \cup InitialCaches : x.kind = "ok"} :
                        /\ s.Version = b.version
                        /\ s.LastUpdated = b.createdAt
                        /\ Range(b.blocklist) \subseteq GetAll(blocklist)
                        /\ GetAll(blocklist) \subseteq Range(b.blocklist) \cup ExtraBlocked
                        /\ Range(b.allowlist) \subseteq GetAll(allowlist)
                        /\ GetAll(allowlist) \subseteq Range(b.allowlist) \cup ExtraAllowed]_vars

\* C27 witness: Stats has read snapshot 2.0 with its two domains, the
\* configured two and the added one, while the worker's refresh waits for
\* the lock with the other snapshot
C27_Witness ==
    /\ pc["c2"] = "st_unlock"
    /\ local["c2"].stats.Version = blobS2.version
    /\ local["c2"].stats.BlocklistCount = 4
    /\ pc["bg"] = "dl_lock"
    /\ local["bg"].df.Version = blobS1.version


\* the well-formed snapshots a cache file or a server may hold
OkBlobs == {b \in ServerBlobs \cup InitialCaches : b.kind = "ok"}

\* the swap of a refresh installs exactly the decoded snapshot, and when
\* Refresh then returns nil with the indexes of its own swap still
\* installed, the Checker holds one snapshot's version and timestamp and its
\* blocklist and allowlist are that snapshot's joined with custom(config list)
RefreshReplaces(custom(_)) ==
    \A t \in Clients :
        /\ (constructed = "ok" /\ pc[t] = "dl_swap2" /\ pc'[t] = "ap_lock") =>
              /\ GetAll(blocklist') = Range(local[t].fileData.blocklist)
              /\ GetAll(allowlist') = Range(local[t].fileData.allowlist)
              /\ version' = local[t].fileData.version
              /\ lastUpdated' = local[t].fileData.createdAt
        /\ (/\ constructed = "ok" /\ pc[t] = "ap_lock" /\ pc'[t] = "idle"
            /\ blocklist.gen = local[t].fetchId
            /\ allowlist.gen = local[t].fetchId) =>
              /\ ret'[t] = "nil"
              /\ \E b \in OkBlobs :
                    /\ version' = b.version
                    /\ lastUpdated' = b.createdAt
                    /\ GetAll(blocklist') = Range(b.blocklist) \cup custom(config.CustomBlocklist)
                    /\ GetAll(allowlist') = Range(b.allowlist) \cup custom(config.CustomAllowlist)

NonEmptyNormalizedSet(custom) == NormalizedSet(custom) \ {<<>>}

isValidDomainChar(c) == c \in {"t", "c", "g", "x", "m", "n", "u", "i", "-", "_"}

\* isValidDomain: not empty, with a '.', and every part between the dots
\* non-empty and of valid characters
isValidDomain(domain) ==
    /\ domain # <<>>
    /\ "." \in Range(domain)
    /\ domain[1] # "."
    /\ domain[Len(domain)] # "."
    /\ \A i \in 1..(Len(domain) - 1) : ~(domain[i] = "." /\ domain[i + 1] = ".")
    /\ \A i \in 1..Len(domain) : domain[i] = "." \/ isValidDomainChar(toRunes(domain)[i])

\* the normalized valid domains among lines
ValidDomains(lines) ==
    {NormalizeDomain(lines[i]) : i \in {j \in 1..Len(lines) :
                                            isValidDomain(NormalizeDomain(lines[j]))}}

\* LoadSourcesFromFile: a file without sources is an error
UpdLoadSources ==
    /\ upd.pc = "load"
    /\ IF Len(upd.sources) = 0
       THEN upd' = [upd EXCEPT !.pc = "done", !.ret = "failed to load sources"]
       ELSE upd' = [upd EXCEPT !.pc = "download"]
    /\ UNCHANGED <<checkerVars, trieVars, facadeVars>>

\* one turn of the loop over the sources: a source that fails or has no
\* lines is skipped, the valid domains of any other are put into the map of
\* its type
UpdSource ==
    /\ upd.pc = "download"
    /\ upd.i <= Len(upd.sources)
    /\ LET src == upd.sources[upd.i]
       IN  IF src.result.failed \/ Len(src.result.lines) = 0
           THEN upd' = [upd EXCEPT !.i = @ + 1]
           ELSE IF src.type = "blocklist"
           THEN upd' = [upd EXCEPT !.i = @ + 1, !.successfulSources = @ + 1,
                                   !.blocklist = @ \cup ValidDomains(src.result.lines)]
           ELSE upd' = [upd EXCEPT !.i = @ + 1, !.successfulSources = @ + 1,
                                   !.allowlist = @ \cup ValidDomains(src.result.lines)]
    /\ UNCHANGED <<checkerVars, trieVars, facadeVars>>

\* variant: the run goes on without a successful source
AllSourcesFailed_ignored(n) == FALSE

\* successfulSources == 0
AllSourcesFailed(n) == n = 0

\* after the loop: no successful source is an error
UpdCheckSources ==
    /\ upd.pc = "download"
    /\ upd.i > Len(upd.sources)
    /\ IF AllSourcesFailed(upd.successfulSources)
       THEN upd' = [upd EXCEPT !.pc = "done", !.ret = "all sources failed"]
       ELSE upd' = [upd EXCEPT !.pc = "manual"]
    /\ UNCHANGED <<checkerVars, trieVars, facadeVars>>

\* the valid domains of a manual file that is there and can be read
ManualDomains(f) == IF f.given /\ f.readable THEN ValidDomains(f.lines) ELSE {}

\* the file of the -manual flag, then manual.txt of the output directory
UpdManual ==
    /\ upd.pc = "manual"
    /\ upd' = [upd EXCEPT !.pc = "filter",
                          !.blocklist = @ \cup ManualDomains(upd.manualFile)
                                          \cup ManualDomains(upd.manualTxt)]
    /\ UNCHANGED <<checkerVars, trieVars, facadeVars>>

\* variant: the allowlisted domains stay in the blocklist
RemoveAllowlisted_kept(bl, al) == bl

\* for domain := range allowlist { delete(blocklist, domain) }
RemoveAllowlisted(bl, al) == bl \ al

\* the allowlisted domains are removed; an empty blocklist is an error
UpdFilter ==
    /\ upd.pc = "filter"
    /\ LET bl == RemoveAllowlisted(upd.blocklist, upd.allowlist)
       IN  IF bl = {}
           THEN upd' = [upd EXCEPT !.pc = "done", !.blocklist = bl,
                                   !.ret = "blocklist is empty after processing"]
           ELSE upd' = [upd EXCEPT !.pc = "write", !.blocklist = bl]
    /\ UNCHANGED <<checkerVars, trieVars, facadeVars>>

\* the trie built by inserting the keys of a map, one after the other
RECURSIVE InsertSet(_, _)
InsertSet(t, S) ==
    IF S = {} THEN t
    ELSE LET d == CHOOSE x \in S : TRUE IN InsertSet(Insert(t, d), S \ {d})

\* the tries are built, then MkdirAll, Serialize and WriteFile: MkdirAll may
\* fail, and WriteFile may fail, before or after it has truncated the file
UpdWrite(mkdirOk, writeOk, truncated) ==
    /\ upd.pc = "write"
    /\ IF ~mkdirOk
       THEN upd' = [upd EXCEPT !.pc = "done",
                               !.ret = "failed to create output directory"]
       ELSE IF ~writeOk
       THEN upd' = [upd EXCEPT !.pc = "done", !.ret = "failed to write file",
                               !.dataBin = IF truncated THEN blobBadGzip ELSE @]
       ELSE \E data \in Serialize(InsertSet(New(OwnGen), upd.blocklist),
                                  InsertSet(New(OwnGen), upd.allowlist)) :
                upd' = [upd EXCEPT !.pc = "done", !.ret = "nil", !.dataBin = data]
    /\ UNCHANGED <<checkerVars, trieVars, facadeVars>>

UpdateInit ==
    /\ InitProgram
    /\ ~config.AutoRefresh
    /\ cache = NoFile
    /\ upd \in UpdateRuns

UpdateNext ==
    \/ UpdLoadSources
    \/ UpdSource
    \/ UpdCheckSources
    \/ UpdManual
    \/ UpdFilter
    \/ \E mkdirOk, writeOk, truncated \in BOOLEAN : UpdWrite(mkdirOk, writeOk, truncated)

UpdateSpec == UpdateInit /\ [][UpdateNext]_vars

\* every source failed to download or returned no lines
EverySourceFailed ==
    \A i \in 1..Len(upd.sources) :
        upd.sources[i].result.failed \/ upd.sources[i].result.lines = <<>>

\* the valid domains of the sources of type ty, as the run's inputs give them
DomainsOfType(ty) ==
    UNION {ValidDomains(upd.sources[i].result.lines) :
                i \in {j \in 1..Len(upd.sources) : upd.sources[j].type = ty}}

\* the blocklist after merging the manual additions and removing the
\* allowlisted domains, as the run's inputs give it
MergedBlocklist ==
    (DomainsOfType("blocklist") \cup ManualDomains(upd.manualFile)
        \cup ManualDomains(upd.manualTxt)) \ DomainsOfType("allowlist")

\* C29: data.bin is as the last run left it until run writes it, which it
\* does not before its last step; a run whose sources all failed or gave no
\* lines, or whose merged blocklist is empty, ends with an error and data.bin
\* as it was; and a data.bin that run has written has no domain in both its
\* lists.
C29_UpdateKeepsGoodData ==
    /\ [](upd.pc # "done" => upd.dataBin = upd.old)
    /\ []((upd.pc = "done" /\ (EverySourceFailed \/ MergedBlocklist = {})) =>
            /\ upd.ret \notin {"nil", "none"}
            /\ upd.dataBin = upd.old)
    /\ [][(upd'.dataBin # upd.dataBin /\ upd'.dataBin.kind = "ok") =>
            /\ Range(upd'.dataBin.blocklist) \cap Range(upd'.dataBin.allowlist) = {}
            /\ Range(upd'.dataBin.blocklist) = MergedBlocklist
            /\ upd'.ret = "nil"]_vars

\* C29 witness: a blocklist source and an allowlist source were downloaded,
\* the only blocked domain is allowlisted, and run has ended with an error
\* and the old data.bin in place
C29_Witness ==
    /\ upd.pc = "done"
    /\ upd.successfulSources = 2
    /\ upd.allowlist # {}
    /\ MergedBlocklist = {}
    /\ upd.old = blobS1
    /\ upd.dataBin = blobS1
    /\ upd.ret = "blocklist is empty after processing"


\* s is a non-empty trailing substring of q
IsTrailing(s, q) ==
    /\ s # <<>>
    /\ Len(s) <= Len(q)
    /\ s = SubSeq(q, Len(q) - Len(s) + 1, Len(q))

\* ContainsHierarchical(q) on trie k is true exactly when a string inserted
\* into it (and not cleared since) is a non-empty trailing substring of q
HierarchicalIsTrailingMatch(k, q) ==
    ContainsHierarchical(tries[k], q) = (\E s \in inserted[k] : IsTrailing(s, q))

BeforeSwap == {"dl_fetch", "dl_decode", "dl_write", "dl_lock"}

\* C31: a thread that is fetching, decoding, writing the cache file or
\* waiting for the lock holds no lock of the Checker, and the write lock is
\* held across steps only inside the swap; these steps of a refresh change
\* neither the installed fields nor the lock; while the refresh of a
\* constructed Checker is there and nobody is inside a swap, another caller
\* gets the read lock of IsDisposable and Stats at once, and the write lock
\* of AddDomains and AddAllowlist as soon as no reader is inside; and what
\* they read or extend then are the installed indexes, not those of the
\* snapshot being fetched.
C31_RefreshHoldsNoLock ==
    /\ [](\A t \in Threads :
            /\ pc[t] \in BeforeSwap => (mu.w # t /\ t \notin mu.r)
            /\ mu.w = t => pc[t] = "dl_swap2")
    /\ [](\A t \in Threads :
            (constructed = "ok" /\ pc[t] \in BeforeSwap /\ mu.w = "none") =>
                \A u \in Clients :
                    CanCall(u) =>
                        /\ QueryMayEnter
                        /\ ENABLED StatsRead(u)
                        /\ mu.r = {} => LockFree)
    /\ [][\A t \in Threads :
            /\ (pc[t] \in {"dl_fetch", "dl_decode", "dl_write"} /\ pc'[t] # pc[t]) =>
                    UNCHANGED <<cstate, mu>>
            /\ (constructed = "ok" /\ pc[t] \in BeforeSwap /\ pc'[t] = pc[t]) =>
                  /\ \A u \in Clients :
                        (pc[u] = "q_block" /\ pc'[u] = "q_unlock") =>
                            /\ local'[u].obsB = blocklist.gen
                            /\ local'[u].obsB # local[t].fetchId
                            /\ local'[u].result =
                                    ContainsHierarchical(blocklist, local[u].domain)
                  /\ (blocklist' # blocklist /\ pc' = pc) =>
                        /\ blocklist'.gen = blocklist.gen
                        /\ blocklist.gen # local[t].fetchId
                        /\ GetAll(blocklist) \subseteq GetAll(blocklist')
                  /\ (allowlist' # allowlist /\ pc' = pc) =>
                        /\ allowlist'.gen = allowlist.gen
                        /\ allowlist.gen # local[t].fetchId
                        /\ GetAll(allowlist) \subseteq GetAll(allowlist')]_vars

\* C31 witness: the worker's refresh has fetched and decoded snapshot 2.0
\* and is writing the cache file; meanwhile AddDomains has added "t.c" to
\* the installed blocklist and a query has been answered from it
C31_Witness ==
    /\ pc["bg"] = "dl_write"
    /\ local["bg"].df.Version = blobS2.version
    /\ version = blobS1.version
    /\ blocklist.gen # local["bg"].fetchId
    /\ pc["c2"] = "q_unlock"
    /\ local["c2"].obsB = blocklist.gen
    /\ local["c2"].result
    /\ pc["main"] = "idle"
    /\ mu.w = "none"

(***************************************************************************)
(* C32                                                                     *)
(***************************************************************************)
\* the normalized domains a caller's AddDomains or AddAllowlist call inserts
Added(v) == {NormalizeDomain(StepAddArgs[v][i]) : i \in 1..Len(StepAddArgs[v])}

\* what GetAll returns for the named index
Listed(index) == IF index = "blocklist" THEN GetAll(blocklist) ELSE GetAll(allowlist)

\* of every caller's domains the index holds all or none
Whole(index) == \A v \in Clients : Added(v) \cap Listed(index) \in {{}, Added(v)}

\* C32: an AddDomains or AddAllowlist call with several domains is atomic
\* for queries and for other additions.  While a call is between its first
\* and last insertion the caller holds the write lock, nobody holds the read
\* lock and no other addition is in its loop; whenever a reader (IsDisposable,
\* Stats, GetBlocklist, GetAllowlist) holds the read lock, both indexes hold
\* all or none of each call's domains, and so do the list GetBlocklist and
\* GetAllowlist return and the counts Stats returns; once two concurrent
\* calls on the same index have both returned, the domains of both are in it.
C32_AdditionsAtomic ==
    /\ [](\A t \in Clients :
            pc[t] = "ad_loop" =>
                /\ mu.w = t
                /\ mu.r = {}
                /\ \A v \in Clients \ {t} : pc[v] # "ad_loop")
    /\ [](mu.r # {} => Whole("blocklist") /\ Whole("allowlist"))
    /\ [](\A u \in Clients :
            /\ pc[u] = "gl_unlock" =>
                  /\ local[u].list = Listed(local[u].index)
                  /\ \A v \in Clients : Added(v) \cap local[u].list \in {{}, Added(v)}
            /\ pc[u] = "st_unlock" =>
                  /\ local[u].stats.BlocklistCount = Cardinality(Listed("blocklist"))
                  /\ local[u].stats.AllowlistCount = Cardinality(Listed("allowlist")))
    /\ [](\A index \in TrieNames :
            (\A t \in Clients : ret[t] = index) =>
                UNION {Added(v) : v \in Clients} \subseteq Listed(index))

\* one caller is between the two insertions of its AddDomains call while the
\* other, whose own AddDomains call has returned, waits to make a call
C32_Witness ==
    /\ pc["main"] = "ad_loop"
    /\ local["main"].index = "blocklist"
    /\ Len(local["main"].todo) = 1
    /\ ~Whole("blocklist")
    /\ ret["c2"] = "blocklist"
    /\ pc["c2"] = "idle"

(***************************************************************************)
(* C33                                                                     *)
(***************************************************************************)
\* the positions of a query between its RLock and its return
InQuery == {"q_allow", "q_block", "q_unlock"}

\* C33: the query path is read-only and free of I/O.  Every step of
\* IsDisposable / IsDisposableWithContext leaves the indexes, the version,
\* the timestamp, the cache file and the number of fetches as they were, and
\* starts no download; the call's outcome is the same for a cancelled and a
\* live context: an input with an empty domain returns false at once, any
\* other input goes on to look up its normalized domain, and the value
\* returned is what the two indexes say about that domain.
C33_QueryReadOnly ==
    /\ [][\A t \in Queriers :
            (\/ pc'[t] # pc[t] /\ (pc[t] \in InQuery \/ pc'[t] \in InQuery)
             \/ pc[t] = "idle" /\ pc'[t] = "idle" /\ ret'[t] # ret[t]) =>
                /\ UNCHANGED <<blocklist, allowlist, initialized, lastUpdated, version,
                               cache, nfetch>>
                /\ pc'[t] \in InQuery \cup {"idle"}
                /\ local'[t].fetchId = local[t].fetchId]_vars
    /\ [][\A t \in Queriers, x \in QueryInputs, cancelled \in BOOLEAN :
            IsDisposableWithContext(t, cancelled, x) =>
                IF ExtractDomain(x) = <<>>
                THEN pc'[t] = "idle" /\ ret'[t] = "false"
                ELSE /\ pc'[t] = "q_allow"
                     /\ local'[t].domain = NormalizeDomain(ExtractDomain(x))
                     /\ ret'[t] = ret[t]]_vars
    /\ [][\A t \in Queriers :
            (pc[t] = "q_unlock" /\ pc'[t] = "idle") =>
                ret'[t] = BoolStr(/\ ~ContainsHierarchical(allowlist, local[t].domain)
                                  /\ ContainsHierarchical(blocklist, local[t].domain))]_vars

\* a query returns true while a refresh has fetched a snapshot and not yet
\* installed it
C33_Witness ==
    /\ pc["c2"] = "idle"
    /\ ret["c2"] = "true"
    /\ pc["main"] = "dl_write"
    /\ nfetch >= 1

(***************************************************************************)
(* C34                                                                     *)
(***************************************************************************)
\* C34: at every moment after New has returned, also while a manual or a
\* background refresh is in progress, the live blocklist matches every
\* configured custom blocklist domain and the live allowlist matches every
\* configured custom allowlist domain (the domains whose normalized form is
\* empty, which are never stored, are left aside).  The indexes are looked at
\* whenever the write lock is free, which is when a query can read them.
C34_CustomDomainsAlwaysLive ==
    (constructed = "ok" /\ mu.w = "none") =>
        /\ \A d \in NonEmptyNormalizedSet(config.CustomBlocklist) :
              ContainsHierarchical(blocklist, d)
        /\ \A d \in NonEmptyNormalizedSet(config.CustomAllowlist) :
              ContainsHierarchical(allowlist, d)

(***************************************************************************)
(* C35                                                                     *)
(***************************************************************************)
\* the Checker with a cache directory and a cache file that can be written:
\* construction, manual and background refreshes, Close
CacheNext ==
    \/ NewMkdirAll(TRUE)
    \/ NewLoadFromCacheOk
    \/ NewLoadFromCacheFail
    \/ NewStartWorker
    \/ \E t \in Threads : FetchFail(t)
    \/ \E t \in Threads, b \in ServerBlobs : FetchOk(t, b)
    \/ \E t \in Threads : DecodeFail(t)
    \/ \E t \in Threads : DecodeOk(t)
    \/ \E t \in Threads : WriteCache(t, TRUE)
    \/ \E t \in Threads : Swap1(t)
    \/ \E t \in Threads : Swap2(t)
    \/ \E t \in Threads : Apply(t)
    \/ \E t \in Mutators : RefreshCall(t)
    \/ \E t \in Clients : CloseCancel(t)
    \/ \E t \in Clients : CloseWait(t)
    \/ WorkerDone
    \/ WorkerTick

CacheSpec == Init /\ [][CacheNext]_vars

\* the positions of a refresh between its start and its last insertion
InRefresh == BeforeSwap \cup {"dl_swap2", "ap_lock"}

\* C35: with every cache write succeeding, whenever no refresh is in
\* progress the cache file holds the blob the installed indexes were decoded
\* from: its version and creation time are those the Checker reports and its
\* blocklist is what the installed blocklist was built from.  This is to
\* hold also after a manual and a background refresh ran concurrently.
C35_CacheIsInstalledBlob ==
    (constructed = "ok" /\ \A t \in Threads : pc[t] \notin InRefresh) =>
        /\ cache \in OkBlobs
        /\ cache.version = version
        /\ cache.createdAt = lastUpdated

C37_DomainCountIsBlocklistLength ==
    ser.at = "done" => ser.DomainCount = Len(ser.Blocklist)

(***************************************************************************)
(* C38                                                                     *)
(***************************************************************************)
\* where a thread holds the Checker's write lock, and where its read lock
HoldsWrite == {"dl_swap2", "ad_loop"}
HoldsRead == {"q_allow", "q_block", "q_unlock", "st_unlock", "gl_unlock"}

\* a caller inside a call, the worker inside a cycle
InCall(t) ==
    IF t = "bg" THEN pc[t] \in InRefresh
    ELSE pc[t] \in InRefresh \cup HoldsRead \cup {"ad_loop", "cl_wait"}

\* C38: no interleaving of IsDisposable, Stats, GetBlocklist, GetAllowlist,
\* AddDomains, AddAllowlist, Refresh, the worker and Close deadlocks.  The
\* Checker's lock is held only by a thread inside the locked part of a call:
\* never by a thread that waits in Close, downloads, rests between calls or
\* sits in the worker's select, and never twice by one thread; the indexes
\* are only touched (so a trie's own lock only taken) by the one holder of
\* the write lock or with no writer about, so the Checker's lock always
\* comes first; and under fair scheduling, downloads ending, every call
\* returns and every background cycle ends.
C38_NoDeadlock ==
    /\ [](\A t \in Threads :
            /\ mu.w = t => (pc[t] \in HoldsWrite /\ mu.r = {})
            /\ t \in mu.r => (pc[t] \in HoldsRead /\ mu.w = "none"))
    /\ [][/\ (blocklist' # blocklist \/ allowlist' # allowlist) =>
                (mu.r = {} /\ mu'.r = {})
          /\ (mu.w # "none" /\ mu'.w # "none") => mu'.w = mu.w
          /\ \A t \in Threads :
                /\ (mu'.w = t /\ mu.w # t) => (LockFree /\ pc[t] \notin HoldsRead \cup HoldsWrite)
                /\ (t \in mu'.r /\ t \notin mu.r) =>
                      (mu.w = "none" /\ pc[t] \notin HoldsRead \cup HoldsWrite)]_vars
    /\ \A t \in Threads : InCall(t) ~> ~InCall(t)

\* both refreshes wait for the write lock while a caller of GetBlocklist
\* holds the read lock
C38_Witness ==
    /\ pc["main"] = "dl_lock"
    /\ pc["bg"] = "dl_lock"
    /\ pc["c2"] = "gl_unlock"
    /\ "c2" \in mu.r

(***************************************************************************)
(* C39                                                                     *)
(***************************************************************************)
\* C39: Close changes nothing but the background task.  The two steps of a
\* Close call leave the indexes, the version, the timestamp, the cache file
\* and the lock as they are.  On a closed Checker every call is taken as
\* before: IsDisposable and Stats enter whenever no writer holds the lock,
\* AddDomains whenever the lock is free, Refresh at once; and they do what
\* they did before: a query returns what the indexes say about its domain,
\* AddDomains inserts its normalized domains, and the swap of a Refresh
\* installs the snapshot it decoded.
C39_CloseChangesOnlyWorker ==
    /\ [][\A t \in Clients :
            ((pc[t] = "idle" /\ pc'[t] = "cl_wait") \/ (pc[t] = "cl_wait" /\ pc'[t] = "idle")) =>
                UNCHANGED <<blocklist, allowlist, initialized, lastUpdated, version, cache, mu>>]_vars
    /\ [](closed =>
            \A u \in Clients :
                pc[u] = "idle" =>
                    /\ RLockFree =>
                          /\ \A x \in {d_mtc, e_uTC, e_blank} : ENABLED IsDisposableCall(u, x)
                          /\ ENABLED StatsRead(u)
                    /\ LockFree => \A ds \in AddArgs : ENABLED AddDomains(u, ds)
                    /\ nfetch < MaxFetches => ENABLED RefreshCall(u))
    /\ [][closed =>
            /\ \A u \in Clients :
                  /\ (pc[u] = "q_unlock" /\ pc'[u] = "idle") =>
                        ret'[u] = BoolStr(/\ ~ContainsHierarchical(allowlist, local[u].domain)
                                          /\ ContainsHierarchical(blocklist, local[u].domain))
                  /\ (pc[u] = "dl_lock" /\ pc'[u] = "dl_swap2") => blocklist' = local[u].nb
                  /\ (pc[u] = "dl_swap2" /\ pc'[u] = "ap_lock") =>
                        /\ allowlist' = local[u].na
                        /\ version' = local[u].df.Version
                        /\ lastUpdated' = local[u].df.CreatedAt
            /\ (pc' = pc /\ blocklist' # blocklist) =>
                  \E ds \in AddArgs : blocklist' = InsertAll(blocklist, NormalizeAll(ds))]_vars

\* Close has returned and the worker is gone; a Refresh has since used up the
\* last download and its snapshot is installed, and a query is reading it
C39_Witness ==
    /\ closed
    /\ pc["bg"] = "w_exit"
    /\ pc["main"] = "idle"
    /\ ret["main"] = "nil"
    /\ nfetch = MaxFetches
    /\ blocklist.gen = nfetch
    /\ pc["c2"] = "q_unlock"
    /\ local["c2"].obsB = nfetch

====
